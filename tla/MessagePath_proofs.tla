-------------------------- MODULE MessagePath_proofs --------------------------
(***************************************************************************)
(* Proofs about MessagePath: for any items and frames, limits, delays and  *)
(* sizes of batches, a row of a symbol and a time passes the duplicates'   *)
(* filter once, what is stored has met every rule, and a message that a    *)
(* query reads is let through, a duplicate or late.                        *)
(***************************************************************************)
EXTENDS MessagePath, FiniteSetTheorems, TLAPS

\* Only what the parser accepts is in Kafka, in the topic of its event.
TopicInv ==
    \A k \in Kinds : \A p \in DOMAIN topic[k] :
        Accepted(topic[k][p]) /\ TopicOf(topic[k][p]) = k

\* A row that was let through is remembered by its key until it is late itself.
CoveredInv ==
    \A k \in Kinds : \A p \in passed[k] :
        \/ Key(topic[k][p]) \in seen[k]
        \/ topic[k][p].s <= watermark[k]

\* A key in the state is the key of a row that was let through.
SeenInv ==
    \A k \in Kinds : \A key \in seen[k] :
        \E p \in passed[k] : Key(topic[k][p]) = key

IInv == /\ TypeOK /\ TopicInv /\ CoveredInv /\ SeenInv
        /\ OncePerKey /\ StoredIsPlausible /\ EveryMessageDecided

------------------------------------------------------------------------------
LEMMA ItemTypes ==
    ASSUME NEW i \in Items
    PROVE  /\ i.s \in Int /\ i.e \in Int /\ i.v \in Int /\ i.vw \in Int
           /\ i.o \in Int /\ i.h \in Int /\ i.l \in Int /\ i.c \in Int
           /\ i.otc \in BOOLEAN /\ i.typed \in BOOLEAN
BY PathAssumption DEF ItemRecords

LEMMA TopicOfKind == \A i : TopicOf(i) \in Kinds
BY DEF TopicOf, Kinds

LEMMA CountType ==
    ASSUME NEW frame \in Seq(Items), NEW outcome
    PROVE  Count(frame, outcome) \in Nat
<1> DEFINE Hits == {p \in Reached(frame) : Outcome(frame[p]) = outcome}
<1>1. DOMAIN frame = 1 .. Len(frame) /\ Len(frame) \in Nat
  OBVIOUS
<1>2. IsFiniteSet(1 .. Len(frame))
  BY <1>1, FS_Interval
<1>3. Hits \subseteq 1 .. Len(frame)
  BY <1>1 DEF Reached
<1>4. IsFiniteSet(Hits)
  BY <1>2, <1>3, FS_Subset
<1>5. Cardinality(Hits) \in Nat
  BY <1>4, FS_CardinalityType
<1> QED
  BY <1>5 DEF Count

\* Equal keys are equal symbols and times.
LEMMA KeyIsSame == \A i, j : Key(i) = Key(j) <=> Same(i, j)
BY DEF Key, Same

LEMMA InitInv == Init => IInv
<1> SUFFICES ASSUME Init
             PROVE  IInv
  OBVIOUS
<1>1. TypeOK
  <2>1. 0 \in 0 .. MaxNow /\ 0 \in 0 .. MaxFrames
    BY PathAssumption
  <2>2. parser \in Totals
    <3>1. parser = [parsed |-> 0, valid |-> 0, invalid |-> 0, status |-> 0]
      BY DEF Init
    <3>2. parser = [f \in {"parsed", "valid", "invalid", "status"} |-> 0]
      BY <3>1
    <3> QED
      BY <3>2 DEF Totals
  <2>3. topic \in [Kinds -> Seq(Items)]
    BY DEF Init
  <2>4. ASSUME NEW k \in Kinds
        PROVE  /\ topic[k] = <<>> /\ offset[k] = 0 /\ seen[k] = {}
               /\ passed[k] = {} /\ stored[k] = {} /\ rejected[k] = {}
               /\ skipped[k] = {}
    BY DEF Init
  <2>5. sending \in [frame : Frames \cup {<<>>}, from : Nat \ {0}]
    BY DEF Init
  <2>6. /\ seen \in [Kinds -> SUBSET {Key(i) : i \in Items}]
        /\ passed \in [Kinds -> SUBSET Nat] /\ stored \in [Kinds -> SUBSET Nat]
        /\ rejected \in [Kinds -> SUBSET Nat] /\ skipped \in [Kinds -> SUBSET Nat]
        /\ started \subseteq Kinds
    BY DEF Init
  <2> QED
    BY <2>1, <2>2, <2>3, <2>4, <2>5, <2>6 DEF Init, TypeOK, Positions
<1>2. \A k \in Kinds : /\ topic[k] = <<>> /\ passed[k] = {} /\ stored[k] = {}
                       /\ seen[k] = {} /\ offset[k] = 0
  BY DEF Init
<1>3. TopicInv /\ CoveredInv /\ SeenInv /\ OncePerKey /\ StoredIsPlausible
  BY <1>2 DEF TopicInv, CoveredInv, SeenInv, OncePerKey, StoredIsPlausible
<1>4. EveryMessageDecided
  BY <1>2 DEF EveryMessageDecided, Positions
<1> QED
  BY <1>1, <1>3, <1>4 DEF IInv

------------------------------------------------------------------------------
\* A frame is parsed: nothing but the client's own variables moves.
LEMMA ReceiveInv ==
    ASSUME IInv, NEW frame \in Frames, Receive(frame)
    PROVE  IInv'
<1> USE DEF IInv
<1>1. UNCHANGED <<failed, topic, started, offset, skipped, watermark, seen, passed,
                  stored, rejected, now>>
  BY DEF Receive, read, query
<1>2. frame \in Seq(Items)
  BY PathAssumption
<1>3. parser' \in Totals
  <2>1. \A outcome : Count(frame, outcome) \in Nat
    BY <1>2, CountType
  <2>2. Len(frame) \in Nat
    BY <1>2
  <2>3. parser \in Totals
    BY DEF TypeOK
  <2>4. \A f \in {"parsed", "valid", "invalid", "status"} : parser[f] \in Nat
    BY <2>3 DEF Totals
  <2> DEFINE a == parser.parsed + (IF Complete(frame) THEN Len(frame) ELSE 0)
             b == parser.valid + Count(frame, "valid")
             c == parser.invalid + Count(frame, "invalid")
             d == parser.status + Count(frame, "status")
  <2>5. a \in Nat /\ b \in Nat /\ c \in Nat /\ d \in Nat
    BY <2>1, <2>2, <2>4
  <2>6. parser' = [parsed |-> a, valid |-> b, invalid |-> c, status |-> d]
    BY DEF Receive, Parsed
  <2> HIDE DEF a, b, c, d
  <2>7. [parsed |-> a, valid |-> b, invalid |-> c, status |-> d] \in Totals
    BY <2>5 DEF Totals
  <2> QED
    BY <2>6, <2>7
<1>4. frames' \in 0 .. MaxFrames
  BY PathAssumption DEF Receive, TypeOK
<1>5. raised' \in Nat /\ sending' \in [frame : Frames \cup {<<>>}, from : Nat \ {0}]
  BY DEF Receive, TypeOK
<1>6. TypeOK'
  BY <1>1, <1>3, <1>4, <1>5 DEF TypeOK, Positions
<1>7. TopicInv' /\ CoveredInv' /\ SeenInv' /\ OncePerKey' /\ StoredIsPlausible'
  BY <1>1 DEF TopicInv, CoveredInv, SeenInv, OncePerKey, StoredIsPlausible
<1>8. EveryMessageDecided'
  BY <1>1 DEF EveryMessageDecided, Positions
<1> QED
  BY <1>6, <1>7, <1>8

\* A message is appended to its topic, or an error counted; what was in a topic
\* stays in its place.
LEMMA ProduceInv ==
    ASSUME IInv, Produce
    PROVE  IInv'
<1> USE DEF IInv
<1>1. UNCHANGED <<parser, raised, frames, started, offset, skipped, watermark, seen,
                  passed, stored, rejected, now>>
  BY DEF Produce, read, query
<1>2. PICK p \in Unsent :
        /\ \/ /\ topic' = [topic EXCEPT ![TopicOf(sending.frame[p])] =
                              Append(@, sending.frame[p])]
              /\ failed' = failed
           \/ /\ failed' = failed + 1
              /\ topic' = topic
        /\ sending' = [sending EXCEPT !.from = p + 1]
  BY DEF Produce
<1> DEFINE i == sending.frame[p]
           j == TopicOf(i)
<1>3. /\ sending.frame \in Seq(Items) /\ sending.from \in Nat \ {0}
      /\ sending.frame \in Frames \cup {<<>>}
  <2>1. sending.frame \in Frames \cup {<<>>} /\ sending.from \in Nat \ {0}
    BY DEF TypeOK
  <2>2. Frames \subseteq Seq(Items)
    BY PathAssumption
  <2>3. <<>> \in Seq(Items)
    OBVIOUS
  <2> QED
    BY <2>1, <2>2, <2>3
<1>4. p \in Nat \ {0} /\ p \in DOMAIN sending.frame /\ Accepted(i)
  BY <1>3 DEF Unsent
<1>5. i \in Items /\ j \in Kinds
  <2>1. i \in Items
    BY <1>3, <1>4
  <2>2. j \in Kinds
    BY TopicOfKind
  <2> QED
    BY <2>1, <2>2
<1> HIDE DEF i, j
<1>7. topic \in [Kinds -> Seq(Items)]
  BY DEF TypeOK
<1>8. \A k \in Kinds : topic[k] \in Seq(Items)
  BY <1>7
<1>9. /\ topic' \in [Kinds -> Seq(Items)]
      /\ failed' \in Nat
      /\ \A k \in Kinds :
            (topic'[k] = topic[k]) \/ (k = j /\ topic'[k] = Append(topic[k], i))
  <2>1. failed \in Nat
    BY DEF TypeOK
  <2>2. CASE topic' = [topic EXCEPT ![j] = Append(@, i)] /\ failed' = failed
    <3>1. Append(topic[j], i) \in Seq(Items)
      BY <1>5, <1>8
    <3> QED
      BY <1>5, <1>7, <2>1, <2>2, <3>1
  <2>3. CASE failed' = failed + 1 /\ topic' = topic
    BY <1>7, <2>1, <2>3
  <2> QED
    BY <1>2, <2>2, <2>3 DEF i, j
<1>11. ASSUME NEW k \in Kinds
       PROVE  /\ Len(topic[k]) <= Len(topic'[k])
              /\ \A q \in DOMAIN topic[k] : topic'[k][q] = topic[k][q]
              /\ \A q \in DOMAIN topic'[k] :
                    (q \in DOMAIN topic[k]) \/ (k = j /\ topic'[k][q] = i)
  <2>1. topic[k] \in Seq(Items)
    BY <1>8
  <2>2. CASE topic'[k] = topic[k]
    BY <2>1, <2>2
  <2>3. CASE k = j /\ topic'[k] = Append(topic[k], i)
    BY <1>5, <2>1, <2>3
  <2> QED
    BY <1>9, <2>2, <2>3
<1>12. \A k \in Kinds : passed[k] \subseteq DOMAIN topic[k] /\ stored[k] \subseteq passed[k]
  BY <1>8 DEF TypeOK, Positions
<1>13. TypeOK'
  <2>1. sending' \in [frame : Frames \cup {<<>>}, from : Nat \ {0}]
    <3>1. sending \in [frame : Frames \cup {<<>>}, from : Nat \ {0}]
      BY DEF TypeOK
    <3>2. sending' = [frame |-> sending.frame, from |-> p + 1]
      BY <3>1, <1>2
    <3>3. p + 1 \in Nat \ {0}
      BY <1>4
    <3> QED
      BY <1>3, <3>2, <3>3
  <2>2. ASSUME NEW k \in Kinds
        PROVE  offset[k] <= Len(topic'[k])
    <3>1. offset[k] \in Nat /\ offset[k] <= Len(topic[k])
      BY DEF TypeOK
    <3>2. Len(topic[k]) \in Nat /\ Len(topic'[k]) \in Nat
      BY <1>8, <1>9
    <3> QED
      BY <1>11, <3>1, <3>2
  <2>3. /\ topic' \in [Kinds -> Seq(Items)]
        /\ parser' \in Totals /\ raised' \in Nat /\ frames' \in 0 .. MaxFrames
        /\ offset' \in [Kinds -> Nat] /\ watermark' \in [Kinds -> Nat]
        /\ failed' \in Nat /\ started' \subseteq Kinds
        /\ skipped' \in [Kinds -> SUBSET Nat] /\ now' \in 0 .. MaxNow
    BY <1>1, <1>9 DEF TypeOK
  <2>5. /\ seen' \in [Kinds -> SUBSET {Key(x) : x \in Items}]
        /\ passed' \in [Kinds -> SUBSET Nat] /\ stored' \in [Kinds -> SUBSET Nat]
        /\ rejected' \in [Kinds -> SUBSET Nat]
    BY <1>1 DEF TypeOK
  <2>4. ASSUME NEW k \in Kinds
        PROVE  /\ offset'[k] <= Len(topic'[k])
               /\ passed'[k] \subseteq Positions(k)'
               /\ stored'[k] \cup rejected'[k] \subseteq passed'[k]
    BY <1>1, <2>2 DEF TypeOK, Positions
  <2> QED
    BY <2>1, <2>3, <2>4, <2>5 DEF TypeOK
<1>14. TopicInv'
  <2> SUFFICES ASSUME NEW k \in Kinds, NEW q \in DOMAIN topic'[k]
               PROVE  Accepted(topic'[k][q]) /\ TopicOf(topic'[k][q]) = k
    BY DEF TopicInv
  <2>1. CASE q \in DOMAIN topic[k]
    BY <2>1, <1>11 DEF TopicInv
  <2>2. CASE k = j /\ topic'[k][q] = i
    BY <2>2, <1>4 DEF i, j
  <2> QED
    BY <2>1, <2>2, <1>11
<1>15. CoveredInv' /\ OncePerKey' /\ SeenInv'
  BY <1>1, <1>11, <1>12 DEF CoveredInv, OncePerKey, SeenInv
<1>16. StoredIsPlausible'
  BY <1>1, <1>11, <1>12 DEF StoredIsPlausible
<1>17. EveryMessageDecided'
  <2>1. \A k \in Kinds : Positions(k) \subseteq DOMAIN topic[k]
    BY <1>8 DEF TypeOK, Positions
  <2> QED
    BY <1>1, <1>11, <1>12, <2>1 DEF EveryMessageDecided, Positions
<1> QED
  BY <1>13, <1>14, <1>15, <1>16, <1>17

\* An exception gives up the rest of a frame: nothing but the client's own
\* variables moves.
LEMMA BreakOffInv ==
    ASSUME IInv, BreakOff
    PROVE  IInv'
<1> USE DEF IInv
<1>1. /\ UNCHANGED <<parser, failed, frames, topic, started, offset, skipped,
                     watermark, seen, passed, stored, rejected, now>>
      /\ sending' = [frame |-> <<>>, from |-> 1] /\ raised' = raised + 1
  BY DEF BreakOff, read, query
<1>2. raised' \in Nat /\ sending' \in [frame : Frames \cup {<<>>}, from : Nat \ {0}]
  BY <1>1 DEF TypeOK
<1>3. TypeOK'
  BY <1>1, <1>2 DEF TypeOK, Positions
<1>4. TopicInv' /\ CoveredInv' /\ SeenInv' /\ OncePerKey' /\ StoredIsPlausible'
  BY <1>1 DEF TopicInv, CoveredInv, SeenInv, OncePerKey, StoredIsPlausible
<1>5. EveryMessageDecided'
  BY <1>1 DEF EveryMessageDecided, Positions
<1> QED
  BY <1>3, <1>4, <1>5

LEMMA TickInv ==
    ASSUME IInv, Tick
    PROVE  IInv'
<1> USE DEF IInv
<1>1. /\ UNCHANGED <<parser, raised, failed, frames, sending, topic, started, offset,
                     skipped, watermark, seen, passed, stored, rejected>>
      /\ now' = now + 1 /\ now \in 0 .. MaxNow /\ now' \in 0 .. MaxNow
  BY PathAssumption DEF Tick, TypeOK, client, read, query
<1>2. TypeOK'
  BY <1>1 DEF TypeOK, Positions
<1>3. TopicInv' /\ CoveredInv' /\ SeenInv' /\ OncePerKey' /\ EveryMessageDecided'
  BY <1>1 DEF TopicInv, CoveredInv, SeenInv, OncePerKey, EveryMessageDecided, Positions
<1>4. StoredIsPlausible'
  <2> SUFFICES ASSUME NEW k \in Kinds, NEW p \in stored[k]
               PROVE  topic[k][p].s <= now' + Tolerance
    BY <1>1 DEF StoredIsPlausible
  <2>1. p \in 1 .. Len(topic[k]) /\ topic[k] \in Seq(Items)
    BY DEF TypeOK, Positions
  <2>2. topic[k][p] \in Items
    BY <2>1
  <2>3. topic[k][p].s <= now + Tolerance
    BY DEF StoredIsPlausible
  <2>4. topic[k][p].s \in Int /\ Tolerance \in Nat /\ now \in Int
    BY <1>1, <2>2, ItemTypes, PathAssumption
  <2> QED
    BY <1>1, <2>3, <2>4
<1> QED
  BY <1>2, <1>3, <1>4

------------------------------------------------------------------------------
\* A query that moves on without a batch: what it comes past are messages that it
\* skips, so that every other decision stands.
LEMMA SkipInv ==
    ASSUME IInv, NEW k \in Kinds, NEW n \in Nat, NEW more \in SUBSET Nat,
           offset[k] <= n, n <= Len(topic[k]),
           1 .. n \ more \subseteq 1 .. offset[k] \ skipped[k],
           offset' = [offset EXCEPT ![k] = n],
           skipped' = [skipped EXCEPT ![k] = more], started' \subseteq Kinds,
           UNCHANGED <<client, topic, query, now>>
    PROVE  IInv'
<1> USE DEF IInv
<1>1. UNCHANGED <<parser, raised, failed, frames, sending, topic, watermark, seen,
                  passed, stored, rejected, now>>
  BY DEF client, query
<1>2. offset \in [Kinds -> Nat] /\ skipped \in [Kinds -> SUBSET Nat]
  BY DEF TypeOK
<1>3. /\ offset' \in [Kinds -> Nat] /\ skipped' \in [Kinds -> SUBSET Nat]
      /\ offset'[k] = n /\ skipped'[k] = more
      /\ \A j \in Kinds \ {k} : offset'[j] = offset[j] /\ skipped'[j] = skipped[j]
  BY <1>2
<1>4. \A j \in Kinds : /\ offset[j] <= offset'[j] /\ offset'[j] <= Len(topic[j])
                       /\ offset[j] \in Nat /\ offset'[j] \in Nat
  BY <1>2, <1>3 DEF TypeOK
<1>5. TypeOK'
  <2>1. \A j \in Kinds : Positions(j) \subseteq Positions(j)'
    BY <1>4 DEF Positions
  <2>2. \A j \in Kinds : passed[j] \subseteq Positions(j)
    BY DEF TypeOK
  <2>3. \A j \in Kinds : passed'[j] \subseteq Positions(j)'
    BY <1>1, <2>1, <2>2
  <2> QED
    BY <1>1, <1>3, <1>4, <2>3 DEF TypeOK
<1>6. TopicInv' /\ CoveredInv' /\ SeenInv' /\ OncePerKey' /\ StoredIsPlausible'
  BY <1>1 DEF TopicInv, CoveredInv, SeenInv, OncePerKey, StoredIsPlausible
<1>7. EveryMessageDecided'
  <2>1. \A j \in Kinds : Positions(j)' \ skipped'[j] \subseteq Positions(j) \ skipped[j]
    BY <1>3 DEF Positions
  <2> QED
    BY <1>1, <2>1 DEF EveryMessageDecided
<1> QED
  BY <1>5, <1>6, <1>7

LEMMA StartQueryInv ==
    ASSUME IInv, NEW k \in Kinds, StartQuery(k)
    PROVE  IInv'
<1>1. /\ topic[k] \in Seq(Items) /\ offset[k] \in Nat /\ offset[k] <= Len(topic[k])
      /\ started \subseteq Kinds
  BY DEF IInv, TypeOK
<1>2. started' \subseteq Kinds
  BY <1>1 DEF StartQuery
<1> DEFINE more == DOMAIN topic[k]
           n == Len(topic[k])
<1>3. n \in Nat /\ more = 1 .. n /\ more \in SUBSET Nat
  BY <1>1
<1>4. /\ 1 .. n \ more \subseteq 1 .. offset[k] \ skipped[k]
      /\ offset[k] <= n /\ n <= Len(topic[k])
  BY <1>1, <1>3
<1>5. /\ offset' = [offset EXCEPT ![k] = n] /\ skipped' = [skipped EXCEPT ![k] = more]
      /\ UNCHANGED <<client, topic, query, now>>
  BY DEF StartQuery
<1> HIDE DEF more, n
<1> QED
  BY <1>2, <1>3, <1>4, <1>5, SkipInv

LEMMA ExpireInv ==
    ASSUME IInv, NEW k \in Kinds, Expire(k)
    PROVE  IInv'
<1>1. /\ topic[k] \in Seq(Items) /\ offset[k] \in Nat /\ offset[k] <= Len(topic[k])
      /\ started \subseteq Kinds /\ skipped[k] \in SUBSET Nat
      /\ skipped \in [Kinds -> SUBSET Nat]
  BY DEF IInv, TypeOK
<1>2. PICK n \in offset[k] + 1 .. Len(topic[k]) :
        /\ offset' = [offset EXCEPT ![k] = n]
        /\ skipped' = [skipped EXCEPT ![k] = @ \cup (offset[k] + 1 .. n)]
  BY DEF Expire
<1>3. UNCHANGED <<client, topic, query, now>> /\ started' \subseteq Kinds
  BY <1>1 DEF Expire
<1> DEFINE more == skipped[k] \cup (offset[k] + 1 .. n)
<1>4. n \in Nat /\ offset[k] <= n /\ n <= Len(topic[k])
  BY <1>1
<1>5. more \in SUBSET Nat /\ 1 .. n \ more \subseteq 1 .. offset[k] \ skipped[k]
  BY <1>1, <1>4
<1>6. skipped' = [skipped EXCEPT ![k] = more]
  BY <1>1, <1>2
<1> HIDE DEF more
<1> QED
  BY <1>2, <1>3, <1>4, <1>5, <1>6, SkipInv

------------------------------------------------------------------------------
\* What a micro-batch takes and lets through.
LEMMA BatchRows ==
    ASSUME IInv, NEW k \in Kinds, NEW rows \in Deduplicated(k)
    PROVE  /\ rows \subseteq DOMAIN topic[k]
           /\ \A p \in rows : /\ topic[k][p] \in Items
                              /\ p \in 1 .. NextOffset(k)
                              /\ Validates(topic[k][p])
                              /\ topic[k][p].s > watermark[k]
                              /\ Key(topic[k][p]) \notin seen[k]
           /\ \A p, q \in rows : Key(topic[k][p]) = Key(topic[k][q]) => p = q
<1> USE DEF IInv
<1>1. topic[k] \in Seq(Items) /\ offset[k] \in Nat /\ offset[k] <= Len(topic[k])
  BY DEF TypeOK
<1>2. rows \subseteq Fresh(k)
  BY DEF Deduplicated
<1>3. \A p, q \in rows : Key(topic[k][p]) = Key(topic[k][q]) => p = q
  BY DEF Deduplicated
<1>4. ASSUME NEW p \in rows
      PROVE  /\ p \in DOMAIN topic[k]
             /\ p <= offset[k] + MaxOffsets
             /\ Validates(topic[k][p])
             /\ topic[k][p].s > watermark[k]
             /\ Key(topic[k][p]) \notin seen[k]
  BY <1>2 DEF Fresh, Valid, Batch
<1>5. ASSUME NEW p \in rows
      PROVE  p \in 1 .. NextOffset(k)
  <2>1. p \in 1 .. Len(topic[k]) /\ p <= offset[k] + MaxOffsets
    BY <1>1, <1>4
  <2>2. MaxOffsets \in Nat /\ Len(topic[k]) \in Nat
    BY <1>1, PathAssumption
  <2> QED
    BY <1>1, <2>1, <2>2 DEF NextOffset
<1>6. \A p \in rows : topic[k][p] \in Items
  BY <1>1, <1>4
<1> QED
  BY <1>3, <1>4, <1>5, <1>6

\* The watermark is an integer that does not go back.
LEMMA WatermarkRises ==
    ASSUME IInv, NEW k \in Kinds, NEW w \in NextWatermark(k)
    PROVE  w \in Nat /\ watermark[k] <= w
<1> USE DEF IInv
<1>1. watermark[k] \in Nat /\ topic[k] \in Seq(Items) /\ Delay[k] \in Nat
  BY PathAssumption DEF TypeOK
<1>2. w \in Reaches(k) /\ watermark[k] \in Reaches(k) /\ watermark[k] <= w
  BY DEF NextWatermark, Reaches
<1>3. ASSUME NEW p \in Valid(k)
      PROVE  topic[k][p].s - Delay[k] \in Int
  <2>1. topic[k][p] \in Items
    BY <1>1 DEF Valid, Batch
  <2> QED
    BY <1>1, <2>1, ItemTypes
<1>4. w \in Int
  BY <1>1, <1>2, <1>3 DEF Reaches
<1> QED
  BY <1>1, <1>2, <1>4

\* A micro-batch, with all it changes.
LEMMA BatchInv ==
    ASSUME IInv, NEW k \in Kinds, RunBatch(k)
    PROVE  IInv'
<1> USE DEF IInv
<1>1. UNCHANGED <<parser, raised, failed, frames, sending, topic, started, skipped>>
  BY DEF RunBatch, client
<1>2. PICK rows \in Deduplicated(k), t \in now .. MaxNow :
        /\ passed' = [passed EXCEPT ![k] = @ \cup rows]
        /\ seen' = [seen EXCEPT ![k] = NextSeen(k, rows)]
        /\ stored' = [stored EXCEPT ![k] = @ \cup GoodRows(k, WithoutOtc(k, rows), t)]
        /\ now' \in t .. MaxNow
        /\ rejected' = [rejected EXCEPT ![k] =
                            @ \cup NotGoodRows(k, WithoutOtc(k, rows), now')]
  BY DEF RunBatch
<1>3. PICK w \in NextWatermark(k) : watermark' = [watermark EXCEPT ![k] = w]
  BY DEF RunBatch
<1>4. offset' = [offset EXCEPT ![k] = NextOffset(k)]
  BY DEF RunBatch
<1>5. w \in Nat /\ watermark[k] <= w
  BY WatermarkRises
<1>6. /\ rows \subseteq DOMAIN topic[k]
      /\ \A p \in rows : /\ topic[k][p] \in Items
                         /\ p \in 1 .. NextOffset(k)
                         /\ Validates(topic[k][p])
                         /\ topic[k][p].s > watermark[k]
                         /\ Key(topic[k][p]) \notin seen[k]
      /\ \A p, q \in rows : Key(topic[k][p]) = Key(topic[k][q]) => p = q
  BY BatchRows
<1>7. /\ topic \in [Kinds -> Seq(Items)] /\ offset \in [Kinds -> Nat]
      /\ watermark \in [Kinds -> Nat] /\ now \in 0 .. MaxNow /\ MaxNow \in Nat
  BY PathAssumption DEF TypeOK
<1>8. t \in Int /\ now' \in 0 .. MaxNow /\ now <= t /\ t <= now'
  BY <1>2, <1>7
<1>9. ASSUME NEW j \in Kinds, j # k
      PROVE  /\ seen'[j] = seen[j] /\ passed'[j] = passed[j] /\ stored'[j] = stored[j]
             /\ rejected'[j] = rejected[j] /\ offset'[j] = offset[j]
             /\ watermark'[j] = watermark[j]
  BY <1>2, <1>3, <1>4, <1>9
<1>10. /\ seen \in [Kinds -> SUBSET {Key(x) : x \in Items}]
       /\ passed \in [Kinds -> SUBSET Nat] /\ stored \in [Kinds -> SUBSET Nat]
       /\ rejected \in [Kinds -> SUBSET Nat]
  BY DEF TypeOK
<1> DEFINE good == GoodRows(k, WithoutOtc(k, rows), t)
           bad == NotGoodRows(k, WithoutOtc(k, rows), now')
<1>11. /\ passed'[k] = passed[k] \cup rows
       /\ seen'[k] = NextSeen(k, rows)
       /\ stored'[k] = stored[k] \cup good
       /\ rejected'[k] = rejected[k] \cup bad
       /\ watermark'[k] = w
       /\ offset'[k] = NextOffset(k)
  <2>1. passed'[k] = passed[k] \cup rows /\ seen'[k] = NextSeen(k, rows)
    BY <1>2, <1>10
  <2>2. stored'[k] = stored[k] \cup good /\ rejected'[k] = rejected[k] \cup bad
    BY <1>2, <1>10
  <2>3. watermark'[k] = w /\ offset'[k] = NextOffset(k)
    BY <1>3, <1>4, <1>7
  <2> QED
    BY <2>1, <2>2, <2>3
<1>12. good \subseteq rows /\ bad \subseteq rows
  BY DEF GoodRows, NotGoodRows, WithoutOtc
<1>13. /\ NextOffset(k) \in Nat
       /\ offset[k] <= NextOffset(k) /\ NextOffset(k) <= Len(topic[k])
  <2>1. offset[k] \in Nat /\ Len(topic[k]) \in Nat /\ offset[k] <= Len(topic[k])
    BY <1>7 DEF TypeOK
  <2>2. MaxOffsets \in Nat
    BY PathAssumption
  <2> QED
    BY <2>1, <2>2 DEF NextOffset
<1>14. /\ passed[k] \subseteq 1 .. offset[k] /\ stored[k] \subseteq passed[k]
       /\ rejected[k] \subseteq passed[k] /\ offset[k] \in Nat
       /\ passed[k] \subseteq DOMAIN topic[k]
  <2>1. /\ passed[k] \subseteq 1 .. offset[k] /\ stored[k] \subseteq passed[k]
        /\ rejected[k] \subseteq passed[k]
    BY DEF TypeOK, Positions
  <2>2. offset[k] \in Nat /\ offset[k] <= Len(topic[k]) /\ topic[k] \in Seq(Items)
    BY <1>7 DEF TypeOK
  <2>3. DOMAIN topic[k] = 1 .. Len(topic[k]) /\ Len(topic[k]) \in Nat
    BY <2>2
  <2> QED
    BY <2>1, <2>2, <2>3
<1>15. \A p \in passed[k] : topic[k][p] \in Items
  BY <1>7, <1>14
<1> HIDE DEF good, bad
<1>16. TypeOK'
  <2>1. NextSeen(k, rows) \subseteq {Key(x) : x \in Items}
    <3>1. seen[k] \subseteq {Key(x) : x \in Items}
      BY <1>10
    <3>2. {Key(topic[k][p]) : p \in rows} \subseteq {Key(x) : x \in Items}
      BY <1>6
    <3> QED
      BY <3>1, <3>2 DEF NextSeen
  <2>2. seen' \in [Kinds -> SUBSET {Key(x) : x \in Items}]
    BY <1>2, <1>10, <2>1
  <2>3. rows \subseteq Nat
    BY <1>6, <1>13
  <2>4. passed' \in [Kinds -> SUBSET Nat]
    BY <1>2, <1>10, <2>3
  <2>5. stored' \in [Kinds -> SUBSET Nat]
    BY <1>2, <1>10, <1>12, <2>3 DEF good
  <2>6. rejected' \in [Kinds -> SUBSET Nat]
    BY <1>2, <1>10, <1>12, <2>3 DEF bad
  <2>7. offset' \in [Kinds -> Nat] /\ watermark' \in [Kinds -> Nat]
    BY <1>3, <1>4, <1>5, <1>7, <1>13
  <2>8. ASSUME NEW j \in Kinds
        PROVE  /\ offset'[j] <= Len(topic'[j])
               /\ passed'[j] \subseteq Positions(j)'
               /\ stored'[j] \cup rejected'[j] \subseteq passed'[j]
    <3>1. CASE j # k
      BY <3>1, <1>1, <1>9 DEF TypeOK, Positions
    <3>2. CASE j = k
      <4>1. passed[k] \subseteq 1 .. NextOffset(k)
        BY <1>13, <1>14
      <4>2. rows \subseteq 1 .. NextOffset(k)
        BY <1>6
      <4>3. passed'[k] \subseteq 1 .. offset'[k]
        BY <4>1, <4>2, <1>11
      <4>4. stored'[k] \cup rejected'[k] \subseteq passed'[k]
        BY <1>11, <1>12, <1>14
      <4>5. offset'[k] <= Len(topic'[k])
        BY <1>1, <1>11, <1>13
      <4> QED
        BY <3>2, <4>3, <4>4, <4>5 DEF Positions
    <3> QED
      BY <3>1, <3>2
  <2>9. /\ parser' \in Totals /\ raised' \in Nat /\ frames' \in 0 .. MaxFrames
        /\ sending' \in [frame : Frames \cup {<<>>}, from : Nat \ {0}]
        /\ topic' \in [Kinds -> Seq(Items)]
        /\ failed' \in Nat /\ started' \subseteq Kinds
        /\ skipped' \in [Kinds -> SUBSET Nat]
    BY <1>1 DEF TypeOK
  <2> QED
    BY <1>8, <2>2, <2>4, <2>5, <2>6, <2>7, <2>8, <2>9 DEF TypeOK
<1>17. TopicInv'
  BY <1>1 DEF TopicInv
<1>18. CoveredInv'
  <2> SUFFICES ASSUME NEW j \in Kinds, NEW p \in passed'[j]
               PROVE  \/ Key(topic[j][p]) \in seen'[j]
                      \/ topic[j][p].s <= watermark'[j]
    BY <1>1 DEF CoveredInv
  <2>1. CASE j # k
    BY <2>1, <1>9 DEF CoveredInv
  <2>2. CASE j = k /\ p \in rows
    <3>1. Key(topic[k][p])[2] > watermark[k]
      BY <2>2, <1>6 DEF Key
    <3>2. Key(topic[k][p]) \in NextSeen(k, rows)
      BY <2>2, <3>1 DEF NextSeen
    <3> QED
      BY <2>2, <3>2, <1>11
  <2>3. CASE j = k /\ p \in passed[k]
    <3>1. topic[k][p] \in Items /\ topic[k][p].s \in Int
      BY <2>3, <1>15, ItemTypes
    <3>2. watermark[k] \in Nat
      BY <1>7
    <3>3. CASE topic[k][p].s <= watermark[k]
      BY <2>3, <3>1, <3>2, <3>3, <1>5, <1>11
    <3>4. CASE topic[k][p].s > watermark[k]
      <4>1. Key(topic[k][p]) \in seen[k]
        BY <2>3, <3>1, <3>2, <3>4 DEF CoveredInv
      <4>2. Key(topic[k][p])[2] > watermark[k]
        BY <3>4 DEF Key
      <4> QED
        BY <2>3, <4>1, <4>2, <1>11 DEF NextSeen
    <3> QED
      BY <3>1, <3>2, <3>3, <3>4
  <2> QED
    BY <2>1, <2>2, <2>3, <1>11
<1>19. OncePerKey'
  <2> SUFFICES ASSUME NEW j \in Kinds, NEW p \in passed'[j], NEW q \in passed'[j],
                      Same(topic[j][p], topic[j][q])
               PROVE  p = q
    BY <1>1 DEF OncePerKey, Same
  <2>1. Key(topic[j][p]) = Key(topic[j][q])
    BY KeyIsSame
  <2>2. CASE j # k
    BY <2>2, <1>9 DEF OncePerKey
  <2>3. CASE j = k /\ p \in passed[k] /\ q \in passed[k]
    BY <2>3 DEF OncePerKey
  <2>4. CASE j = k /\ p \in rows /\ q \in rows
    BY <2>1, <2>4, <1>6
  \* A row of the batch has a time above the watermark and a key not in the state.
  <2>5. ASSUME NEW x \in passed[k], NEW y \in rows,
               Same(topic[k][x], topic[k][y])
        PROVE  FALSE
    <3>1. topic[k][x].s = topic[k][y].s /\ Key(topic[k][x]) = Key(topic[k][y])
      BY <2>5, KeyIsSame DEF Same
    <3>2. topic[k][y].s > watermark[k] /\ Key(topic[k][y]) \notin seen[k]
      BY <1>6
    <3>3. topic[k][x].s <= watermark[k]
      BY <3>1, <3>2 DEF CoveredInv
    <3>4. topic[k][x].s \in Int /\ watermark[k] \in Nat
      BY <1>7, <1>15, ItemTypes
    <3> QED
      BY <3>1, <3>2, <3>3, <3>4
  <2>6. Same(topic[j][q], topic[j][p])
    BY DEF Same
  <2>7. CASE j = k /\ p \in passed[k] /\ q \in rows
    BY <2>5, <2>7
  <2>8. CASE j = k /\ q \in passed[k] /\ p \in rows
    BY <2>5, <2>6, <2>8
  <2> QED
    BY <2>2, <2>3, <2>4, <2>7, <2>8, <1>11
<1>20. StoredIsPlausible'
  <2> SUFFICES ASSUME NEW j \in Kinds, NEW p \in stored'[j]
               PROVE  /\ TopicOf(topic[j][p]) = j /\ topic[j][p].typed
                      /\ ~topic[j][p].otc /\ topic[j][p].sym \in Tradeable
                      /\ 0 < topic[j][p].l /\ topic[j][p].l <= topic[j][p].o
                      /\ topic[j][p].o <= topic[j][p].h
                      /\ topic[j][p].l <= topic[j][p].c
                      /\ topic[j][p].c <= topic[j][p].h
                      /\ topic[j][p].h < MaxPrice
                      /\ topic[j][p].s <= now' + Tolerance
    BY <1>1 DEF StoredIsPlausible
  <2>1. ASSUME p \in stored[j]
        PROVE  topic[j][p].s <= now' + Tolerance
    <3>1. p \in 1 .. Len(topic[j]) /\ topic[j] \in Seq(Items)
      BY <2>1 DEF TypeOK, Positions
    <3>2. topic[j][p] \in Items
      BY <3>1
    <3>3. topic[j][p].s <= now + Tolerance
      BY <2>1 DEF StoredIsPlausible
    <3>4. topic[j][p].s \in Int /\ Tolerance \in Nat
      BY <3>2, ItemTypes, PathAssumption
    <3> QED
      BY <1>7, <1>8, <3>3, <3>4
  <2>2. CASE p \in stored[j]
    BY <2>1, <2>2 DEF StoredIsPlausible
  <2>3. CASE j = k /\ p \in good
    <3>1. p \in rows /\ ~topic[k][p].otc /\ Good(topic[k][p], t)
      BY <2>3 DEF good, GoodRows, WithoutOtc
    <3>2. p \in DOMAIN topic[k] /\ topic[k][p] \in Items /\ Validates(topic[k][p])
      BY <3>1, <1>6
    <3>3. TopicOf(topic[k][p]) = k
      BY <3>2 DEF TopicInv
    <3>4. topic[k][p].sym \in Tradeable /\ topic[k][p].h < MaxPrice
      BY <3>1 DEF Good, InRange, Prices
    <3>5. /\ topic[k][p].typed /\ topic[k][p].l > 0
          /\ topic[k][p].l <= topic[k][p].o /\ topic[k][p].o <= topic[k][p].h
          /\ topic[k][p].l <= topic[k][p].c /\ topic[k][p].c <= topic[k][p].h
      BY <3>2 DEF Validates, Prices
    <3>6. topic[k][p].s <= t + Tolerance
      BY <3>1 DEF Good, InTime
    <3>7. /\ topic[k][p].s \in Int /\ topic[k][p].l \in Int /\ Tolerance \in Nat
      BY <3>2, ItemTypes, PathAssumption
    <3>8. topic[k][p].s <= now' + Tolerance
      BY <1>8, <3>6, <3>7
    <3> QED
      BY <2>3, <3>1, <3>3, <3>4, <3>5, <3>7, <3>8
  <2> QED
    BY <2>2, <2>3, <1>9, <1>11
<1>21. SeenInv'
  <2> SUFFICES ASSUME NEW j \in Kinds, NEW key \in seen'[j]
               PROVE  \E p \in passed'[j] : Key(topic[j][p]) = key
    BY <1>1 DEF SeenInv
  <2>1. CASE j # k
    BY <2>1, <1>9 DEF SeenInv
  <2>2. CASE j = k
    <3>1. key \in seen[k] \/ \E p \in rows : Key(topic[k][p]) = key
      BY <2>2, <1>11 DEF NextSeen
    <3>2. \E p \in passed[k] \cup rows : Key(topic[k][p]) = key
      BY <3>1 DEF SeenInv
    <3> QED
      BY <2>2, <3>2, <1>11
  <2> QED
    BY <2>1, <2>2
<1>22. EveryMessageDecided'
  <2> SUFFICES ASSUME NEW j \in Kinds, NEW p \in 1 .. offset'[j], p \notin skipped[j],
                      Validates(topic[j][p])
               PROVE  \/ topic[j][p].s <= watermark'[j]
                      \/ \E q \in passed'[j] : Same(topic[j][q], topic[j][p])
    BY <1>1 DEF EveryMessageDecided, Positions
  <2>1. CASE j # k
    BY <2>1, <1>9 DEF EveryMessageDecided, Positions
  <2>2. ASSUME topic[k][p].s <= watermark[k], j = k
        PROVE  topic[k][p].s <= watermark'[k]
    <3>1. p \in DOMAIN topic[k]
      BY <2>2, <1>7, <1>11, <1>13
    <3>2. topic[k][p].s \in Int /\ watermark[k] \in Nat
      BY <3>1, <1>7, ItemTypes
    <3> QED
      BY <2>2, <3>2, <1>5, <1>11
  <2>3. CASE j = k /\ p <= offset[k]
    <3>1. \/ topic[k][p].s <= watermark[k]
          \/ \E q \in passed[k] : Same(topic[k][q], topic[k][p])
      BY <2>3, <1>7 DEF EveryMessageDecided, Positions
    <3> QED
      BY <2>2, <2>3, <3>1, <1>11
  <2>4. CASE j = k /\ ~(p <= offset[k])
    <3>1. p \in Valid(k)
      <4>1. p <= offset[k] + MaxOffsets /\ p <= Len(topic[k]) /\ offset[k] < p
        BY <2>4, <1>7, <1>11, <1>13, PathAssumption DEF NextOffset
      <4> QED
        BY <2>4, <4>1, <1>7 DEF Valid, Batch
    <3>2. topic[k][p] \in Items /\ topic[k][p].s \in Int /\ watermark[k] \in Nat
      BY <3>1, <1>7, ItemTypes DEF Valid, Batch
    <3>3. CASE topic[k][p].s <= watermark[k]
      BY <2>2, <2>4, <3>3
    <3>4. CASE topic[k][p].s > watermark[k] /\ Key(topic[k][p]) \in seen[k]
      <4>1. PICK q \in passed[k] : Key(topic[k][q]) = Key(topic[k][p])
        BY <3>4 DEF SeenInv
      <4>2. q \in passed'[k] /\ Same(topic[k][q], topic[k][p])
        BY <4>1, <1>11, KeyIsSame
      <4> QED
        BY <2>4, <4>2
    <3>5. CASE topic[k][p].s > watermark[k] /\ Key(topic[k][p]) \notin seen[k]
      <4>1. p \in Fresh(k)
        BY <3>1, <3>5 DEF Fresh
      <4>2. PICK q \in rows : Key(topic[k][q]) = Key(topic[k][p])
        BY <4>1 DEF Deduplicated
      <4>3. q \in passed'[k] /\ Same(topic[k][q], topic[k][p])
        BY <4>2, <1>11, KeyIsSame
      <4> QED
        BY <2>4, <4>3
    <3> QED
      BY <3>2, <3>3, <3>4, <3>5
  <2> QED
    BY <1>7, <1>13, <2>1, <2>3, <2>4
<1> QED
  BY <1>16, <1>17, <1>18, <1>19, <1>20, <1>21, <1>22

------------------------------------------------------------------------------
LEMMA StepInv == IInv /\ [Next]_vars => IInv'
<1> SUFFICES ASSUME IInv, [Next]_vars
             PROVE  IInv'
  OBVIOUS
<1>1. CASE \E frame \in Frames : Receive(frame)
  BY <1>1, ReceiveInv
<1>2. CASE Produce
  BY <1>2, ProduceInv
<1>3. CASE Tick
  BY <1>3, TickInv
<1>4. CASE BreakOff
  BY <1>4, BreakOffInv
<1>5. CASE \E k \in Kinds : RunBatch(k)
  BY <1>5, BatchInv
<1>6. CASE \E k \in Kinds : StartQuery(k)
  BY <1>6, StartQueryInv
<1>7. CASE \E k \in Kinds : Expire(k)
  BY <1>7, ExpireInv
<1>8. CASE UNCHANGED vars
  <2>1. UNCHANGED <<parser, raised, failed, frames, sending, topic, started, offset,
                    skipped, watermark, seen, passed, stored, rejected, now>>
    BY <1>8 DEF vars, client, read, query
  <2>2. TypeOK'
    BY <2>1 DEF IInv, TypeOK, Positions
  <2>3. TopicInv' /\ CoveredInv' /\ SeenInv' /\ OncePerKey' /\ StoredIsPlausible'
    BY <2>1 DEF IInv, TopicInv, CoveredInv, SeenInv, OncePerKey, StoredIsPlausible
  <2>4. EveryMessageDecided'
    BY <2>1 DEF IInv, EveryMessageDecided, Positions
  <2> QED
    BY <2>2, <2>3, <2>4 DEF IInv
<1> QED
  BY <1>1, <1>2, <1>3, <1>4, <1>5, <1>6, <1>7, <1>8 DEF Next

LEMMA PathInv == Spec => []IInv
BY InitInv, StepInv, PTL DEF Spec

\* What is in Kafka came from the items the server sends, and every row that a
\* job let through, stored or rejected has been in one of its batches.
THEOREM MessagePathTypeCorrect == Spec => []TypeOK
<1>1. IInv => TypeOK
  BY DEF IInv
<1> QED
  BY <1>1, PathInv, PTL

\* dropDuplicates lets one row of a symbol and a time through, for every size of
\* the batches and every delay of the watermark.
THEOREM OncePerKeyHolds == Spec => []OncePerKey
<1>1. IInv => OncePerKey
  BY DEF IInv
<1> QED
  BY <1>1, PathInv, PTL

\* What write_batch is given has met the rules of parser, filter and quality
\* check, for every item the server may send.
THEOREM StoredIsPlausibleHolds == Spec => []StoredIsPlausible
<1>1. IInv => StoredIsPlausible
  BY DEF IInv
<1> QED
  BY <1>1, PathInv, PTL

\* Every valid message that the query reads is let through, has the key of a row
\* that was, or is late: for every size of the batches, every delay and every
\* order of the messages, whatever the query skips before or between them.
THEOREM EveryMessageDecidedHolds == Spec => []EveryMessageDecided
<1>1. IInv => EveryMessageDecided
  BY DEF IInv
<1> QED
  BY <1>1, PathInv, PTL

\* The rules of _parse_aggregate imply those of validate_data for numbers.
THEOREM ParserCoversFilterHolds == Spec => []ParserCoversFilter
<1>1. IInv => ParserCoversFilter
  <2> SUFFICES ASSUME IInv, NEW k \in Kinds, NEW p \in DOMAIN topic[k],
                      topic[k][p].typed, NaN \notin Prices(topic[k][p])
               PROVE  Validates(topic[k][p])
    BY DEF ParserCoversFilter
  <2> DEFINE i == topic[k][p]
  <2>1. topic[k] \in Seq(Items) /\ Accepted(i)
    BY DEF IInv, TypeOK, TopicInv
  <2>2. i \in Items
    BY <2>1
  <2>3. \A x \in Prices(i) : x \in Int
    BY <2>2, ItemTypes DEF Prices
  <2>4. ValidPrices(i) /\ InLimits(i)
    BY <2>1 DEF Accepted, MeetsRules, ValidPrices
  <2>5. i.h \in Prices(i) /\ i.l \in Prices(i)
    BY DEF Prices
  <2>6. \A x \in Prices(i) : x > 0 /\ x <= i.h /\ i.l <= x
    <3> SUFFICES ASSUME NEW x \in Prices(i)
                 PROVE  x > 0 /\ x <= i.h /\ i.l <= x
      OBVIOUS
    <3>1. ~Less(x, 0) /\ x # 0 /\ ~Less(i.h, x) /\ ~Less(x, i.l)
      BY <2>4 DEF InLimits, ValidPrices
    <3>2. x \in Int /\ i.h \in Int /\ i.l \in Int
      BY <2>3, <2>5
    <3>3. x # NaN /\ i.h # NaN /\ i.l # NaN /\ NaN \in Nat /\ NaN > 0
      BY <2>5, PathAssumption
    <3> QED
      BY <3>1, <3>2, <3>3 DEF Less
  <2>7. i.v >= 0
    BY <2>2, <2>4, ItemTypes DEF InLimits
  <2> QED
    BY <2>6, <2>7 DEF Validates
<1> QED
  BY <1>1, PathInv, PTL
------------------------------------------------------------------------------
\* The split of one row between the clock t of the first filter and u of the
\* second: a row that Good decides differently at both is at an edge of InTime.
LEMMA SplitOfRow ==
    ASSUME NEW i \in Items, NEW n \in Int, NEW t \in Int, NEW u \in Int,
           n <= t, t <= u
    PROVE  /\ Good(i, t) \/ ~Good(i, u) \/ i.s > n + Tolerance
           /\ Good(i, t) /\ ~Good(i, u) => i.s < u - MaxAge
<1>1. i.s \in Int /\ Tolerance \in Int /\ MaxAge \in Int
  BY ItemTypes, PathAssumption
<1>2. ~InTime(i, t) /\ InTime(i, u) => i.s > n + Tolerance
  BY <1>1 DEF InTime
<1>3. InTime(i, t) /\ ~InTime(i, u) => i.s < u - MaxAge
  BY <1>1 DEF InTime
<1> QED
  BY <1>2, <1>3 DEF Good

\* The step that lets rows through is a batch, and it decides each of them once.
LEMMA SplitStep ==
    ASSUME IInv, [Next]_vars, NEW k \in Kinds,
           NEW p \in WithoutOtc(k, passed'[k] \ passed[k])
    PROVE  /\ p \in stored'[k] \/ p \in rejected'[k]
                  \/ topic[k][p].s > now + Tolerance
           /\ p \in stored'[k] /\ p \in rejected'[k]
                  => topic[k][p].s < now' - MaxAge
<1>1. p \in passed'[k] /\ p \notin passed[k] /\ ~topic[k][p].otc
  BY DEF WithoutOtc
<1>2. PICK j \in Kinds : RunBatch(j)
  <2>1. passed' # passed
    BY <1>1
  <2> QED
    BY <2>1 DEF Next, vars, query, Receive, Produce, BreakOff, Tick, StartQuery, Expire
<1>3. PICK rows \in Deduplicated(j), t \in now .. MaxNow :
        /\ passed' = [passed EXCEPT ![j] = @ \cup rows]
        /\ stored' = [stored EXCEPT ![j] = @ \cup GoodRows(j, WithoutOtc(j, rows), t)]
        /\ now' \in t .. MaxNow
        /\ rejected' = [rejected EXCEPT ![j] =
                            @ \cup NotGoodRows(j, WithoutOtc(j, rows), now')]
  BY <1>2 DEF RunBatch
<1>4. /\ passed \in [Kinds -> SUBSET Nat] /\ stored \in [Kinds -> SUBSET Nat]
      /\ rejected \in [Kinds -> SUBSET Nat]
      /\ stored[k] \cup rejected[k] \subseteq passed[k]
  BY DEF IInv, TypeOK
<1>5. j = k /\ p \in rows
  BY <1>1, <1>3, <1>4
<1>6. topic[k][p] \in Items
  BY <1>5, BatchRows
<1>7. now \in Int /\ t \in Int /\ now' \in Int /\ now <= t /\ t <= now'
  BY <1>3, PathAssumption DEF IInv, TypeOK
<1>8. p \in stored'[k] <=> Good(topic[k][p], t)
  <2>1. stored'[k] = stored[k] \cup GoodRows(k, WithoutOtc(k, rows), t)
    BY <1>3, <1>4, <1>5
  <2>2. p \notin stored[k] /\ p \in WithoutOtc(k, rows)
    BY <1>1, <1>4, <1>5 DEF WithoutOtc
  <2> QED
    BY <2>1, <2>2 DEF GoodRows
<1>9. p \in rejected'[k] <=> ~Good(topic[k][p], now')
  <2>1. rejected'[k] = rejected[k] \cup NotGoodRows(k, WithoutOtc(k, rows), now')
    BY <1>3, <1>4, <1>5
  <2>2. p \notin rejected[k] /\ p \in WithoutOtc(k, rows)
    BY <1>1, <1>4, <1>5 DEF WithoutOtc
  <2> QED
    BY <2>1, <2>2 DEF NotGoodRows
<1> QED
  BY <1>6, <1>7, <1>8, <1>9, SplitOfRow

\* The two lazy filters of check_and_split split every batch, except for rows at
\* the edges of the time window that the clock passes between them.
THEOREM SplitExactButAtTheEdgesHolds == Spec => SplitExactButAtTheEdges
<1> DEFINE Split(k, p) ==
             /\ p \in stored'[k] \/ p \in rejected'[k]
                    \/ topic[k][p].s > now + Tolerance
             /\ p \in stored'[k] /\ p \in rejected'[k]
                    => topic[k][p].s < now' - MaxAge
           Exact == \A k \in Kinds :
                       \A p \in WithoutOtc(k, passed'[k] \ passed[k]) : Split(k, p)
<1>1. IInv /\ [Next]_vars => [Exact]_vars
  BY SplitStep
<1> QED
  BY <1>1, PathInv, PTL DEF Spec, SplitExactButAtTheEdges
------------------------------------------------------------------------------
\* What parse counts as valid is what produce_batch is given.
LEMMA ValidIsAccepted ==
    ASSUME NEW i
    PROVE  Outcome(i) = "valid" <=> Accepted(i)
BY DEF Outcome, Accepted, Converts

\* An item has one outcome, so the three counts of a frame fit into its length.
LEMMA CountsFit ==
    ASSUME NEW frame \in Seq(Items)
    PROVE  Count(frame, "valid") + Count(frame, "invalid") + Count(frame, "status")
               <= Len(frame)
<1> DEFINE Hits(outcome) == {p \in Reached(frame) : Outcome(frame[p]) = outcome}
           V == Hits("valid")
           I == Hits("invalid")
           S == Hits("status")
<1>1. Len(frame) \in Nat /\ DOMAIN frame = 1 .. Len(frame)
  OBVIOUS
<1>2. IsFiniteSet(1 .. Len(frame)) /\ Cardinality(1 .. Len(frame)) = Len(frame)
  BY <1>1, FS_Interval
<1>3. V \subseteq 1 .. Len(frame) /\ I \subseteq 1 .. Len(frame) /\ S \subseteq 1 .. Len(frame)
  BY <1>1 DEF Reached
<1>4. IsFiniteSet(V) /\ IsFiniteSet(I) /\ IsFiniteSet(S)
  BY <1>2, <1>3, FS_Subset
<1>5. V \cap I = {} /\ (V \cup I) \cap S = {}
  OBVIOUS
<1>6. /\ Count(frame, "valid") = Cardinality(V)
      /\ Count(frame, "invalid") = Cardinality(I)
      /\ Count(frame, "status") = Cardinality(S)
  BY DEF Count
<1> HIDE DEF V, I, S
<1>7. IsFiniteSet(V \cup I) /\ Cardinality(V \cup I) = Cardinality(V) + Cardinality(I) - 0
  <2>1. Cardinality(V \cap I) = 0
    BY <1>5, FS_EmptySet
  <2> QED
    BY <1>4, <2>1, FS_Union
<1>8. Cardinality((V \cup I) \cup S) = Cardinality(V \cup I) + Cardinality(S) - 0
  <2>1. Cardinality((V \cup I) \cap S) = 0
    BY <1>5, FS_EmptySet
  <2> QED
    BY <1>4, <1>7, <2>1, FS_Union
<1>9. Cardinality((V \cup I) \cup S) <= Cardinality(1 .. Len(frame))
  <2>1. (V \cup I) \cup S \in SUBSET (1 .. Len(frame))
    BY <1>3
  <2> QED
    BY <2>1, <1>2, FS_Subset
<1>10. Cardinality(V) \in Nat /\ Cardinality(I) \in Nat /\ Cardinality(S) \in Nat
  BY <1>4, FS_CardinalityType
<1> QED
  BY <1>2, <1>6, <1>7, <1>8, <1>9, <1>10

\* The positions left to produce_batch are finitely many.
LEMMA LeftIsFinite ==
    ASSUME NEW frame \in Seq(Items), NEW n \in Nat
    PROVE  LET left == {p \in n .. Len(frame) : Accepted(frame[p])}
           IN  IsFiniteSet(left) /\ Cardinality(left) \in Nat
<1> DEFINE left == {p \in n .. Len(frame) : Accepted(frame[p])}
<1>1. IsFiniteSet(n .. Len(frame))
  BY FS_Interval
<1>2. left \in SUBSET (n .. Len(frame))
  OBVIOUS
<1>3. IsFiniteSet(left)
  BY <1>1, <1>2, FS_Subset
<1> QED
  BY <1>3, FS_CardinalityType

LEMMA SendingType ==
    ASSUME IInv
    PROVE  /\ sending.frame \in Seq(Items) /\ sending.from \in Nat \ {0}
           /\ IsFiniteSet(Unsent) /\ Cardinality(Unsent) \in Nat
           /\ parser.valid \in Nat /\ parser.invalid \in Nat
           /\ parser.status \in Nat /\ parser.parsed \in Nat
           /\ Len(topic["second"]) \in Nat /\ Len(topic["minute"]) \in Nat
           /\ raised \in Nat /\ failed \in Nat
<1> USE DEF IInv
<1>1. sending.frame \in Seq(Items) /\ sending.from \in Nat \ {0}
  <2>1. sending.frame \in Frames \cup {<<>>} /\ sending.from \in Nat \ {0}
    BY DEF TypeOK
  <2>2. Frames \subseteq Seq(Items) /\ <<>> \in Seq(Items)
    BY PathAssumption
  <2> QED
    BY <2>1, <2>2
<1>2. IsFiniteSet(Unsent) /\ Cardinality(Unsent) \in Nat
  BY <1>1, LeftIsFinite DEF Unsent
<1>3. /\ parser.valid \in Nat /\ parser.invalid \in Nat
      /\ parser.status \in Nat /\ parser.parsed \in Nat /\ raised \in Nat
      /\ failed \in Nat
  BY DEF TypeOK, Totals
<1>4. topic["second"] \in Seq(Items) /\ topic["minute"] \in Seq(Items)
  BY DEF TypeOK, Kinds
<1> QED
  BY <1>1, <1>2, <1>3, <1>4

LEMMA CountersInit == Init => CountersAgree
<1> SUFFICES ASSUME Init
             PROVE  CountersAgree
  OBVIOUS
<1>1. Unsent = {}
  BY DEF Init, Unsent
<1>2. Len(topic["second"]) = 0 /\ Len(topic["minute"]) = 0
  BY DEF Init, Kinds
<1>3. /\ parser.valid = 0 /\ parser.invalid = 0 /\ parser.status = 0
      /\ parser.parsed = 0 /\ failed = 0
  BY DEF Init
<1> QED
  BY <1>1, <1>2, <1>3, FS_EmptySet DEF CountersAgree, Sent

LEMMA CountersReceive ==
    ASSUME IInv, CountersAgree, NEW frame \in Frames, Receive(frame)
    PROVE  CountersAgree'
<1> DEFINE N == Len(topic["second"]) + Len(topic["minute"]) + failed
           C == Cardinality(Unsent)
<1>t. /\ C \in Nat /\ N \in Nat
      /\ parser.valid \in Nat /\ parser.invalid \in Nat
      /\ parser.status \in Nat /\ parser.parsed \in Nat /\ raised \in Nat
  <2>1. /\ Len(topic["second"]) \in Nat /\ Len(topic["minute"]) \in Nat
        /\ C \in Nat /\ parser.valid \in Nat /\ parser.invalid \in Nat
        /\ parser.status \in Nat /\ parser.parsed \in Nat /\ raised \in Nat
        /\ failed \in Nat
    BY SendingType
  <2>2. \A x, y \in Nat : x + y \in Nat
    OBVIOUS
  <2> QED
    BY <2>1, <2>2
<1>1. frame \in Seq(Items) /\ Len(frame) \in Nat
  BY PathAssumption
<1>2. \A outcome : Count(frame, outcome) \in Nat
  BY <1>1, CountType
<1>3. /\ Unsent = {} /\ topic' = topic /\ failed' = failed
      /\ parser' = Parsed(parser, frame)
  BY DEF Receive
<1>4. C = 0
  BY <1>3, FS_EmptySet
<1>5. /\ parser'.valid = parser.valid + Count(frame, "valid")
      /\ parser'.invalid = parser.invalid + Count(frame, "invalid")
      /\ parser'.status = parser.status + Count(frame, "status")
      /\ Complete(frame) => parser'.parsed = parser.parsed + Len(frame)
  BY <1>3 DEF Parsed
<1>6. Sent + failed = N + C /\ Sent' + failed' = N + C'
  <2> DEFINE m == Len(topic["second"])
             n == Len(topic["minute"])
  <2>1. Sent = m + n + C /\ Sent' = m' + n' + C' /\ N = m + n + failed
    BY DEF Sent
  <2>2. m' = m /\ n' = n /\ failed' = failed
    BY <1>3
  <2>3. m \in Nat /\ n \in Nat /\ failed \in Nat /\ C \in Nat /\ C' \in Nat
    <3>1. C' \in Nat
      <4>1. CASE Complete(frame)
        <5>1. sending' = [frame |-> frame, from |-> 1]
          BY <4>1 DEF Receive
        <5>2. Unsent' = {p \in 1 .. Len(frame) : Accepted(frame[p])}
          BY <5>1 DEF Unsent
        <5> QED
          BY <1>1, <5>2, LeftIsFinite
      <4>2. CASE ~Complete(frame)
        <5>1. Unsent' = Unsent
          BY <4>2 DEF Receive, Unsent
        <5> QED
          BY <5>1, <1>t
      <4> QED
        BY <4>1, <4>2
    <3> QED
      BY <3>1, SendingType
  <2> HIDE DEF N, C, m, n
  <2> QED
    BY <2>1, <2>2, <2>3
<1> HIDE DEF N
<1>7. Sent + failed = N
  BY <1>4, <1>6, <1>t
<1>8. /\ N <= parser.valid
      /\ raised = 0 => /\ N = parser.valid
                       /\ parser.valid + parser.invalid + parser.status
                              <= parser.parsed
  BY <1>7 DEF CountersAgree
<1>9. CASE Complete(frame)
  <2>1. sending' = [frame |-> frame, from |-> 1] /\ raised' = raised
    BY <1>9 DEF Receive
  <2>2. Unsent' = {p \in Reached(frame) : Outcome(frame[p]) = "valid"}
    <3>1. Unsent' = {p \in 1 .. Len(frame) : Accepted(frame[p])}
      BY <2>1 DEF Unsent
    <3>2. Reached(frame) = 1 .. Len(frame)
      BY <1>1, <1>9 DEF Complete
    <3> QED
      BY <3>1, <3>2, ValidIsAccepted
  <2>3. C' = Count(frame, "valid")
    BY <2>2 DEF Count
  <2>4. Count(frame, "valid") + Count(frame, "invalid") + Count(frame, "status")
            <= Len(frame)
    BY <1>1, CountsFit
  <2> HIDE DEF C
  <2> DEFINE v == Count(frame, "valid")
             i == Count(frame, "invalid")
             s == Count(frame, "status")
             len == Len(frame)
  <2>5. /\ v \in Nat /\ i \in Nat /\ s \in Nat /\ len \in Nat
        /\ v + i + s <= len /\ C' = v
        /\ parser'.valid = parser.valid + v
        /\ parser'.invalid = parser.invalid + i
        /\ parser'.status = parser.status + s
        /\ parser'.parsed = parser.parsed + len
    BY <1>1, <1>2, <1>5, <1>9, <2>3, <2>4
  <2> HIDE DEF v, i, s, len
  <2>6. Sent' + failed' <= parser'.valid
    BY <1>t, <1>6, <1>8, <2>5
  <2>7. raised' = 0 => Sent' + failed' = parser'.valid
    BY <1>6, <1>8, <2>1, <2>5
  <2>8. raised' = 0 =>
            parser'.valid + parser'.invalid + parser'.status <= parser'.parsed
    <3>1. SUFFICES ASSUME raised' = 0
                   PROVE  parser.valid + v + (parser.invalid + i) + (parser.status + s)
                              <= parser.parsed + len
      BY <2>5
    <3>2. parser.valid + parser.invalid + parser.status <= parser.parsed
      BY <1>8, <2>1, <3>1
    <3> QED
      BY <1>t, <2>5, <3>2
  <2> QED
    BY <2>6, <2>7, <2>8 DEF CountersAgree
<1>10. CASE ~Complete(frame)
  <2>1. sending' = sending /\ raised' = raised + 1
    BY <1>10 DEF Receive
  <2>2. C' = C /\ raised' # 0
    <3>1. Unsent' = Unsent
      BY <2>1 DEF Unsent
    <3>2. C' = C
      BY <3>1
    <3>3. raised \in Nat
      BY <1>t
    <3> QED
      BY <2>1, <3>2, <3>3
  <2> HIDE DEF C
  <2>3. Count(frame, "valid") \in Nat
    BY <1>2
  <2>4. Sent' + failed' <= parser'.valid
    BY <1>t, <1>4, <1>5, <1>6, <1>8, <2>2, <2>3
  <2> QED
    BY <2>2, <2>4 DEF CountersAgree
<1> QED
  BY <1>9, <1>10

LEMMA CountersProduce ==
    ASSUME IInv, CountersAgree, Produce
    PROVE  CountersAgree'
<1> DEFINE m == Len(topic["second"])
           n == Len(topic["minute"])
           C == Cardinality(Unsent)
<1>t. /\ sending.frame \in Seq(Items) /\ sending.from \in Nat \ {0}
      /\ IsFiniteSet(Unsent) /\ C \in Nat /\ m \in Nat /\ n \in Nat
      /\ failed \in Nat
  BY SendingType
<1>1. PICK p \in Unsent :
        /\ \A q \in Unsent : p <= q
        /\ \/ /\ topic' = [topic EXCEPT ![TopicOf(sending.frame[p])] =
                              Append(@, sending.frame[p])]
              /\ failed' = failed
           \/ /\ failed' = failed + 1
              /\ topic' = topic
        /\ sending' = [sending EXCEPT !.from = p + 1]
        /\ UNCHANGED <<parser, raised>>
  BY DEF Produce
<1>2. p \in Int /\ sending.from <= p /\ p \in DOMAIN sending.frame
  BY <1>t DEF Unsent
<1>3. Unsent' = Unsent \ {p}
  <2>1. sending'.frame = sending.frame /\ sending'.from = p + 1
    BY <1>1 DEF IInv, TypeOK
  <2>2. Unsent' = {q \in p + 1 .. Len(sending.frame) : Accepted(sending.frame[q])}
    BY <2>1 DEF Unsent
  <2>3. Len(sending.frame) \in Nat
    BY <1>t
  <2>4. \A q \in Unsent : q \in Int /\ p <= q /\ q <= Len(sending.frame)
                              /\ Accepted(sending.frame[q])
    BY <1>t, <1>1, <2>3 DEF Unsent
  <2>5. \A q \in p + 1 .. Len(sending.frame) :
            Accepted(sending.frame[q]) => q \in Unsent /\ q # p
    BY <1>t, <1>2, <2>3 DEF Unsent
  <2>6. \A q \in Unsent \ {p} : q \in p + 1 .. Len(sending.frame)
    BY <1>2, <2>3, <2>4
  <2> QED
    BY <2>2, <2>4, <2>5, <2>6
<1>4. C' = C - 1
  BY <1>3, <1>t, FS_RemoveElement
<1> DEFINE j == TopicOf(sending.frame[p])
<1>5. /\ topic \in [Kinds -> Seq(Items)] /\ j \in Kinds /\ sending.frame[p] \in Items
      /\ Kinds = {"second", "minute"}
  <2>1. topic \in [Kinds -> Seq(Items)]
    BY DEF IInv, TypeOK
  <2>2. sending.frame[p] \in Items
    BY <1>t, <1>2
  <2> QED
    BY <2>1, <2>2, TopicOfKind DEF Kinds
<1>6. Len(Append(topic[j], sending.frame[p])) = Len(topic[j]) + 1
  <2>1. topic[j] \in Seq(Items)
    BY <1>5
  <2> QED
    BY <1>5, <2>1
<1> HIDE DEF j
<1>7. \/ m' = m + 1 /\ n' = n /\ failed' = failed
      \/ n' = n + 1 /\ m' = m /\ failed' = failed
      \/ m' = m /\ n' = n /\ failed' = failed + 1
  <2>1. CASE failed' = failed + 1 /\ topic' = topic
    BY <2>1
  <2>2. CASE topic' = [topic EXCEPT ![j] = Append(@, sending.frame[p])] /\ failed' = failed
    <3>1. /\ topic'[j] = Append(topic[j], sending.frame[p])
          /\ \A k \in Kinds \ {j} : topic'[k] = topic[k]
      BY <1>5, <2>2
    <3>2. CASE j = "second"
      BY <2>2, <3>1, <3>2, <1>5, <1>6
    <3>3. CASE j = "minute"
      BY <2>2, <3>1, <3>3, <1>5, <1>6
    <3> QED
      BY <1>5, <3>2, <3>3
  <2> QED
    BY <1>1, <2>1, <2>2 DEF j
<1>8. Sent = m + n + C /\ Sent' = m' + n' + C'
  BY DEF Sent
<1> HIDE DEF m, n, C
<1>9. Sent' + failed' = Sent + failed
  <2>1. CASE m' = m + 1 /\ n' = n /\ failed' = failed
    BY <2>1, <1>t, <1>4, <1>8
  <2>2. CASE n' = n + 1 /\ m' = m /\ failed' = failed
    BY <2>2, <1>t, <1>4, <1>8
  <2>3. CASE m' = m /\ n' = n /\ failed' = failed + 1
    BY <2>3, <1>t, <1>4, <1>8
  <2> QED
    BY <2>1, <2>2, <2>3, <1>7
<1> QED
  BY <1>1, <1>9 DEF CountersAgree

LEMMA CountersBreakOff ==
    ASSUME IInv, CountersAgree, BreakOff
    PROVE  CountersAgree'
<1> DEFINE N == Len(topic["second"]) + Len(topic["minute"])
           C == Cardinality(Unsent)
<1>1. /\ C \in Nat /\ N \in Nat /\ failed \in Nat /\ raised \in Nat
      /\ parser.valid \in Nat
  <2>1. /\ Len(topic["second"]) \in Nat /\ Len(topic["minute"]) \in Nat
        /\ C \in Nat /\ failed \in Nat /\ raised \in Nat /\ parser.valid \in Nat
    BY SendingType
  <2>2. \A x, y \in Nat : x + y \in Nat
    OBVIOUS
  <2> QED
    BY <2>1, <2>2
<1>2. /\ topic' = topic /\ failed' = failed /\ parser' = parser
      /\ raised' = raised + 1 /\ sending' = [frame |-> <<>>, from |-> 1]
  BY DEF BreakOff
<1>3. Unsent' = {}
  BY <1>2 DEF Unsent
<1>4. C' = 0
  BY <1>3, FS_EmptySet
<1>5. Sent = N + C /\ Sent' = N' + C' /\ N' = N
  BY <1>2 DEF Sent
<1>6. Sent + failed <= parser.valid
  BY DEF CountersAgree
<1> HIDE DEF N, C
<1>7. Sent' + failed' <= parser'.valid /\ raised' # 0
  BY <1>1, <1>2, <1>4, <1>5, <1>6
<1> QED
  BY <1>7 DEF CountersAgree

\* The statistics of the parser and the contents of the two topics fit together,
\* for frames of any length and any items.
THEOREM CountersAgreeHolds == Spec => []CountersAgree
<1>1. IInv /\ CountersAgree /\ [Next]_vars => CountersAgree'
  <2> SUFFICES ASSUME IInv, CountersAgree, [Next]_vars
               PROVE  CountersAgree'
    OBVIOUS
  <2>1. CASE \E frame \in Frames : Receive(frame)
    BY <2>1, CountersReceive
  <2>2. CASE Produce
    BY <2>2, CountersProduce
  <2>3. CASE BreakOff
    BY <2>3, CountersBreakOff
  <2>4. CASE UNCHANGED <<client, topic>>
    <3>1. UNCHANGED <<parser, raised, failed, sending, topic>>
      BY <2>4 DEF client
    <3>2. Unsent' = Unsent
      BY <3>1 DEF Unsent
    <3>3. Sent' = Sent
      BY <3>1, <3>2 DEF Sent
    <3> QED
      BY <3>1, <3>3 DEF CountersAgree
  <2> QED
    BY <2>1, <2>2, <2>3, <2>4 DEF Next, Tick, StartQuery, Expire, RunBatch, vars
<1> QED
  BY <1>1, CountersInit, PathInv, PTL DEF Spec
==============================================================================
