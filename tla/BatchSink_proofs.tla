--------------------------- MODULE BatchSink_proofs ---------------------------
(***************************************************************************)
(* Proofs about BatchSink: for any rows, partitions and number of retries, *)
(* and any calls of the database that fail, what is committed is stored or *)
(* was reported as lost.                                                   *)
(***************************************************************************)
EXTENDS BatchSink, TLAPS

Stored == \A k \in GoodRows : base[k] = batch[k]

\* A batch is planned only below the bound, and it is planned while the job is
\* in it.
PlannedInv == /\ Planned => id < MaxBatch
              /\ pc # "idle" => Planned

\* Nothing is counted or reported before the writes of the good rows are over;
\* the staging table is dropped only after its rows were merged.
OutcomeInv == /\ pc \in {"stage", "merge", "drop", "append"} => ~counted /\ ~reported
              /\ pc = "drop" => Stored
              /\ pc \in {"reject", "commit"} =>
                     (reported \/ Stored) /\ (counted => Stored)

IInv == TypeOK /\ PlannedInv /\ OutcomeInv

LEMMA InitInv == Init => IInv
<1> SUFFICES ASSUME Init
             PROVE  IInv
  OBVIOUS
<1>1. ~Planned
  BY DEF Init, Nothing, Planned, In
<1>2. TypeOK
  <2>1. 0 \in 0 .. MaxBatch /\ 0 \in 0 .. MaxRetries /\ 0 \in 0 .. MaxCrashes
    BY BatchSinkAssumption
  <2>2. Nothing \in [Keys -> Versions \cup {NoRow}]
    BY DEF Nothing
  <2> QED
    BY <2>1, <2>2 DEF Init, TypeOK
<1>3. PlannedInv
  BY <1>1 DEF Init, PlannedInv
<1>4. OutcomeInv
  BY DEF Init, OutcomeInv
<1> QED
  BY <1>2, <1>3, <1>4 DEF IInv

\* An append leaves the table well typed and, if it took all partitions, with
\* every good row of the batch.
LEMMA AppendStores ==
    ASSUME TypeOK, NEW P \in SUBSET Partitions, Append(P), UNCHANGED batch
    PROVE  /\ base' \in [Keys -> Versions \cup {NoRow}]
           /\ derived' \in [Keys -> Versions \cup {NoRow}]
           /\ P = Partitions => Stored'
<1>1. /\ base' = [k \in Keys |-> IF k \in RowsOf(P) THEN batch[k] ELSE base[k]]
      /\ derived' = [k \in Keys |-> IF k \in RowsOf(P) THEN batch[k] ELSE derived[k]]
  BY DEF Append
<1>2. /\ base \in [Keys -> Versions \cup {NoRow}]
      /\ derived \in [Keys -> Versions \cup {NoRow}]
      /\ batch \in [Keys -> Versions \cup {NoRow}]
  BY DEF TypeOK
<1>3. P = Partitions => RowsOf(P) = GoodRows
  BY BatchSinkAssumption DEF RowsOf, GoodRows
<1>4. GoodRows' = GoodRows /\ GoodRows \subseteq Keys
  BY DEF GoodRows, In
<1> QED
  BY <1>1, <1>2, <1>3, <1>4 DEF Stored

\* The merge brings every good row into the table.
LEMMA MergeStores ==
    ASSUME TypeOK, Merged, UNCHANGED batch
    PROVE  /\ base' \in [Keys -> Versions \cup {NoRow}]
           /\ derived' \in [Keys -> Versions \cup {NoRow}]
           /\ Stored'
<1>1. /\ base \in [Keys -> Versions \cup {NoRow}]
      /\ derived \in [Keys -> Versions \cup {NoRow}]
      /\ batch \in [Keys -> Versions \cup {NoRow}]
  BY DEF TypeOK
<1>2. GoodRows' = GoodRows /\ GoodRows \subseteq Keys
  BY DEF GoodRows, In
<1>3. base' \in [Keys -> Versions \cup {NoRow}]
  BY <1>1 DEF Merged
<1>4. derived' \in [Keys -> Versions \cup {NoRow}]
  BY <1>1 DEF Merged
<1>5. Stored'
  BY <1>2 DEF Merged, Stored
<1> QED
  BY <1>3, <1>4, <1>5

LEMMA StepInv == IInv /\ [Next]_vars => IInv'
<1> SUFFICES ASSUME IInv, [Next]_vars
             PROVE  IInv'
  OBVIOUS
<1>t. /\ base \in [Keys -> Versions \cup {NoRow}]
      /\ derived \in [Keys -> Versions \cup {NoRow}]
      /\ staging \subseteq 0 .. MaxBatch
      /\ deadKeys \subseteq Bad
      /\ batch \in [Keys -> Versions \cup {NoRow}]
      /\ id \in 0 .. MaxBatch
      /\ seen \subseteq Keys
      /\ pc \in {"idle", "stage", "merge", "drop", "append", "reject", "commit"}
      /\ attempt \in 0 .. MaxRetries
      /\ counted \in BOOLEAN /\ reported \in BOOLEAN
      /\ crashes \in 0 .. MaxCrashes
  BY DEF IInv, TypeOK
<1>n. /\ Bad \subseteq Keys
      /\ MaxRetries \in Nat /\ MaxBatch \in Nat /\ MaxCrashes \in Nat
  BY BatchSinkAssumption
<1> DEFINE SameBatch == UNCHANGED batch => /\ GoodRows' = GoodRows
                                           /\ BadRows' = BadRows
                                           /\ Planned' = Planned
<1>b. SameBatch
  BY DEF GoodRows, BadRows, Planned, In
<1>1. CASE Plan
  <2>1. /\ pc = "idle" /\ id < MaxBatch
        /\ batch' \in [Keys -> Versions \cup {NoRow}]
        /\ UNCHANGED <<base, derived, staging, deadKeys, id, seen, pc, attempt,
                       counted, reported, crashes>>
    BY <1>1 DEF Plan, table, outcome
  <2>2. TypeOK'
    BY <1>t, <2>1 DEF TypeOK
  <2> QED
    BY <2>1, <2>2 DEF IInv, PlannedInv, OutcomeInv
<1>2. CASE Begin
  <2>1. /\ pc = "idle" /\ Planned
        /\ pc' = IF GoodRows = {} THEN "reject" ELSE "stage"
        /\ attempt' = 0 /\ counted' = FALSE /\ reported' = FALSE
        /\ UNCHANGED <<base, derived, staging, deadKeys, batch, id, seen, crashes>>
    BY <1>2 DEF Begin, table, spark
  <2>2. TypeOK'
    <3>1. attempt' \in 0 .. MaxRetries
      BY <1>n, <2>1
    <3>2. pc' \in {"reject", "stage"}
      BY <2>1
    <3> QED
      BY <1>t, <2>1, <3>1, <3>2 DEF TypeOK
  <2>3. PlannedInv'
    BY <1>b, <2>1 DEF IInv, PlannedInv
  <2>4. OutcomeInv'
    BY <1>b, <2>1 DEF OutcomeInv, Stored
  <2> QED
    BY <2>2, <2>3, <2>4 DEF IInv
<1>3. CASE Stage
  <2>1. /\ pc = "stage" /\ pc' \in {"merge", "append"}
        /\ staging' \in {staging, staging \cup {id}}
        /\ UNCHANGED <<base, derived, deadKeys, batch, id, seen, attempt,
                       counted, reported, crashes>>
    BY <1>3 DEF Stage, table, spark, outcome
  <2>2. TypeOK'
    BY <1>t, <2>1 DEF TypeOK
  <2>3. PlannedInv'
    BY <1>b, <2>1 DEF IInv, PlannedInv
  <2>4. OutcomeInv'
    BY <2>1 DEF IInv, OutcomeInv
  <2> QED
    BY <2>2, <2>3, <2>4 DEF IInv
<1>4. CASE Merge
  <2>1. /\ pc = "merge"
        /\ UNCHANGED <<staging, deadKeys, batch, id, seen, attempt, counted,
                       reported, crashes>>
        /\ \/ pc' = "drop" /\ Merged
           \/ pc' = "append" /\ (Merged \/ UNCHANGED <<base, derived>>)
    BY <1>4 DEF Merge, table, spark, outcome
  <2>2. /\ base' \in [Keys -> Versions \cup {NoRow}]
        /\ derived' \in [Keys -> Versions \cup {NoRow}]
        /\ pc' = "drop" => Stored'
    BY <1>t, <2>1, MergeStores DEF IInv
  <2>3. TypeOK'
    BY <1>t, <2>1, <2>2 DEF TypeOK
  <2>4. PlannedInv'
    BY <1>b, <2>1 DEF IInv, PlannedInv
  <2>5. OutcomeInv'
    BY <2>1, <2>2 DEF IInv, OutcomeInv
  <2> QED
    BY <2>3, <2>4, <2>5 DEF IInv
<1>5. CASE DropStaging
  <2>1. /\ pc = "drop" /\ staging' \subseteq staging
        /\ UNCHANGED <<base, derived, deadKeys, batch, id, seen, attempt,
                       reported, crashes>>
        /\ \/ pc' = "reject" /\ counted' = TRUE
           \/ pc' = "append" /\ counted' = counted
    BY <1>5 DEF DropStaging, table, spark
  <2>2. TypeOK'
    BY <1>t, <2>1 DEF TypeOK
  <2>3. PlannedInv'
    BY <1>b, <2>1 DEF IInv, PlannedInv
  <2>4. Stored'
    BY <1>b, <2>1 DEF IInv, OutcomeInv, Stored
  <2>5. OutcomeInv'
    BY <2>1, <2>4 DEF IInv, OutcomeInv
  <2> QED
    BY <2>2, <2>3, <2>5 DEF IInv
<1>6. CASE AppendSucceeds
  <2>1. /\ pc = "append" /\ pc' = "reject" /\ counted' = TRUE
        /\ Append(Partitions)
        /\ UNCHANGED <<staging, deadKeys, batch, id, seen, attempt, reported,
                       crashes>>
    BY <1>6 DEF AppendSucceeds, spark
  <2>2. /\ base' \in [Keys -> Versions \cup {NoRow}]
        /\ derived' \in [Keys -> Versions \cup {NoRow}]
        /\ Stored'
    BY <2>1, AppendStores DEF IInv
  <2>3. TypeOK'
    BY <1>t, <2>1, <2>2 DEF TypeOK
  <2>4. PlannedInv'
    BY <1>b, <2>1 DEF IInv, PlannedInv
  <2>5. OutcomeInv'
    BY <2>1, <2>2 DEF OutcomeInv
  <2> QED
    BY <2>3, <2>4, <2>5 DEF IInv
<1>7. CASE AppendFails
  <2>1. /\ pc = "append" /\ attempt < MaxRetries /\ attempt' = attempt + 1
        /\ UNCHANGED <<staging, deadKeys, batch, id, seen, pc, counted, reported,
                       crashes>>
    BY <1>7 DEF AppendFails, spark, outcome
  <2>2. PICK P \in SUBSET Partitions : Append(P)
    BY <1>7 DEF AppendFails
  <2>3. /\ base' \in [Keys -> Versions \cup {NoRow}]
        /\ derived' \in [Keys -> Versions \cup {NoRow}]
    BY <2>1, <2>2, AppendStores DEF IInv
  <2>4. attempt' \in 0 .. MaxRetries
    BY <1>t, <1>n, <2>1
  <2>5. TypeOK'
    BY <1>t, <2>1, <2>3, <2>4 DEF TypeOK
  <2>6. PlannedInv'
    BY <1>b, <2>1 DEF IInv, PlannedInv
  <2>7. OutcomeInv'
    BY <2>1 DEF IInv, OutcomeInv
  <2> QED
    BY <2>5, <2>6, <2>7 DEF IInv
<1>8. CASE RetriesExhausted
  <2>1. /\ pc = "append" /\ pc' = "reject" /\ reported' = TRUE
        /\ UNCHANGED <<staging, deadKeys, batch, id, seen, attempt, counted,
                       crashes>>
    BY <1>8 DEF RetriesExhausted, spark
  <2>2. PICK P \in SUBSET Partitions : Append(P)
    BY <1>8 DEF RetriesExhausted
  <2>3. /\ base' \in [Keys -> Versions \cup {NoRow}]
        /\ derived' \in [Keys -> Versions \cup {NoRow}]
    BY <2>1, <2>2, AppendStores DEF IInv
  <2>4. TypeOK'
    BY <1>t, <2>1, <2>3 DEF TypeOK
  <2>5. PlannedInv'
    BY <1>b, <2>1 DEF IInv, PlannedInv
  <2>6. OutcomeInv'
    BY <2>1 DEF IInv, OutcomeInv
  <2> QED
    BY <2>4, <2>5, <2>6 DEF IInv
<1>9. CASE WriteRejected \/ RejectedLost
  <2>1. /\ pc = "reject" /\ pc' = "commit"
        /\ UNCHANGED <<base, derived, staging, batch, id, seen, attempt, counted,
                       reported, crashes>>
    BY <1>9 DEF WriteRejected, RejectedLost, table, spark, outcome
  <2>2. deadKeys' \subseteq Bad
    BY <1>9, <1>t DEF WriteRejected, RejectedLost, Kept, BadRows
  <2>3. TypeOK'
    BY <1>t, <2>1, <2>2 DEF TypeOK
  <2>4. PlannedInv'
    BY <1>b, <2>1 DEF IInv, PlannedInv
  <2>5. Stored' <=> Stored
    BY <1>b, <2>1 DEF Stored
  <2>6. OutcomeInv'
    BY <2>1, <2>5 DEF IInv, OutcomeInv
  <2> QED
    BY <2>3, <2>4, <2>6 DEF IInv
<1>10. CASE Commit
  <2>1. /\ pc = "commit" /\ pc' = "idle" /\ id' = id + 1
        /\ seen' = seen \cup GoodRows \cup BadRows /\ batch' = Nothing
        /\ UNCHANGED <<base, derived, staging, deadKeys, attempt, counted,
                       reported, crashes>>
    BY <1>10 DEF Commit, table, outcome
  <2>2. id < MaxBatch
    BY <2>1 DEF IInv, PlannedInv
  <2>3. id' \in 0 .. MaxBatch
    BY <1>t, <1>n, <2>1, <2>2
  <2>4. seen' \subseteq Keys
    BY <1>t, <1>n, <2>1 DEF GoodRows, BadRows
  <2>5. batch' \in [Keys -> Versions \cup {NoRow}] /\ ~Planned'
    BY <2>1 DEF Nothing, Planned, In
  <2>6. TypeOK'
    BY <1>t, <2>1, <2>3, <2>4, <2>5 DEF TypeOK
  <2> QED
    BY <2>1, <2>5, <2>6 DEF IInv, PlannedInv, OutcomeInv
<1>11. CASE Crash
  <2>1. /\ pc' = "idle" /\ crashes < MaxCrashes /\ crashes' = crashes + 1
        /\ UNCHANGED <<base, derived, staging, deadKeys, batch, id, seen, attempt,
                       counted, reported>>
    BY <1>11 DEF Crash, table, spark, outcome
  <2>2. crashes' \in 0 .. MaxCrashes
    BY <1>t, <1>n, <2>1
  <2>3. TypeOK'
    BY <1>t, <2>1, <2>2 DEF TypeOK
  <2>4. PlannedInv'
    BY <1>b, <2>1 DEF IInv, PlannedInv
  <2> QED
    BY <2>1, <2>3, <2>4 DEF IInv, OutcomeInv
<1>12. CASE PodReplaced
  <2>1. /\ pc' = "idle" /\ crashes < MaxCrashes /\ crashes' = crashes + 1
        /\ batch' = Nothing /\ id' = 0 /\ seen' = {}
        /\ UNCHANGED <<base, derived, staging, deadKeys, attempt, counted, reported>>
    BY <1>12 DEF PodReplaced, table, outcome
  <2>2. crashes' \in 0 .. MaxCrashes /\ id' \in 0 .. MaxBatch
    BY <1>t, <1>n, <2>1
  <2>3. batch' \in [Keys -> Versions \cup {NoRow}] /\ ~Planned'
    BY <2>1 DEF Nothing, Planned, In
  <2>4. TypeOK'
    BY <1>t, <2>1, <2>2, <2>3 DEF TypeOK
  <2> QED
    BY <2>1, <2>3, <2>4 DEF IInv, PlannedInv, OutcomeInv
<1>13. CASE UNCHANGED vars
  <2>1. UNCHANGED <<base, derived, staging, deadKeys, batch, id, seen, pc,
                    attempt, counted, reported, crashes>>
    BY <1>13 DEF vars
  <2>2. TypeOK'
    BY <1>t, <2>1 DEF IInv, TypeOK
  <2>3. PlannedInv'
    BY <1>b, <2>1 DEF IInv, PlannedInv
  <2>4. Stored' <=> Stored
    BY <1>b, <2>1 DEF Stored
  <2>5. OutcomeInv'
    BY <2>1, <2>4 DEF IInv, OutcomeInv
  <2> QED
    BY <2>2, <2>3, <2>5 DEF IInv
<1> QED
  BY <1>1, <1>2, <1>3, <1>4, <1>5, <1>6, <1>7, <1>8, <1>9, <1>10, <1>11,
     <1>12, <1>13 DEF Next, JobStep

LEMMA InvHolds == Spec => []IInv
BY InitInv, StepInv, PTL DEF Spec

\* The tables, the planned batch and the counters keep their types.
THEOREM BatchSinkTypeCorrect == Spec => []TypeOK
BY InvHolds, PTL DEF IInv

\* Whatever calls of the database fail, before or after they took effect: a
\* batch about to be committed is stored, or its loss was reported.
THEOREM LossIsReportedHolds == Spec => []LossIsReported
<1>1. IInv => LossIsReported
  BY DEF IInv, OutcomeInv, LossIsReported, Stored
<1> QED
  BY <1>1, InvHolds, PTL

\* A batch counted as written is stored, also after partial appends and after
\* replays that find its rows in the table.
THEOREM CountedIsStoredHolds == Spec => []CountedIsStored
<1>1. IInv => CountedIsStored
  BY DEF IInv, OutcomeInv, CountedIsStored, Stored
<1> QED
  BY <1>1, InvHolds, PTL
==============================================================================
