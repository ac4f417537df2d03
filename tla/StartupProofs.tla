---------------------------- MODULE StartupProofs ----------------------------
(***************************************************************************)
(* The start-up keeps its promises for any number of instances.            *)
(***************************************************************************)
EXTENDS Startup, TLAPS

\* A step of one instance that leaves the table alone preserves the invariant if
\* what the instance now claims is so.
LEMMA TableStays ==
  ASSUME IInv, UNCHANGED table, NEW i \in Instances, NEW s \in Stages,
         stage' = [stage EXCEPT ![i] = s],
         unsure' \in SUBSET Instances, unsure \ {i} \subseteq unsure',
         s \notin {"off", "migrate"} => schema,
         s \in {"connect", "bind", "serve"} /\ i \notin unsure' => schema /\ emails # {}
  PROVE  IInv'
BY DEF IInv, TypeOK, RoomForSeed, SeededOnce, Migrated, FirstOfAny, AdminFirst, table, Stages

\* Overlooking a failed statement claims nothing.
LEMMA OverlookedStep ==
  ASSUME IInv, NEW i \in Instances, stage[i] \notin {"off", "migrate"}, Overlooked(i)
  PROVE  IInv'
<1>1. schema
  BY DEF IInv, Migrated
<1>2. QED
  BY <1>1, TableStays DEF Overlooked, Goto, IInv, TypeOK, Stages

\* Who counts no users goes on to the seed, who counts some has them.
LEMMA CountStep == ASSUME IInv, NEW i \in Instances, Count(i) PROVE IInv'
<1>1. schema
  BY DEF Count, IInv, Migrated
<1>2. CASE Overlooked(i)
  BY <1>2, OverlookedStep DEF Count
<1>3. CASE Goto(i, IF emails = {} THEN "seed" ELSE "connect") /\ UNCHANGED <<table, unsure>>
  BY <1>1, <1>3, TableStays DEF Goto, IInv, TypeOK, Stages, table
<1>4. QED
  BY <1>2, <1>3 DEF Count

\* The snapshot of the INSERT only looks.
LEMMA SnapshotStep == ASSUME IInv, NEW i \in Instances, Snapshot(i) PROVE IInv'
<1>1. schema
  BY DEF Snapshot, IInv, Migrated
<1>2. QED
  BY <1>1, TableStays DEF Snapshot, Goto, IInv, TypeOK, Stages, table

\* Either the seed goes in and uses the room there is for it, or the row that
\* holds its email is an account to serve.
LEMMA InsertStep == ASSUME IInv, NEW i \in Instances, Insert(i) PROVE IInv'
<1>1. schema
  BY DEF Insert, IInv, Migrated
<1>2. CASE Overlooked(i)
  BY <1>2, OverlookedStep DEF Insert
<1>3. CASE Goto(i, "connect") /\ "seed" \in emails
             /\ UNCHANGED <<emails, seeds, first, schema, unsure, renames>>
  BY <1>1, <1>3, TableStays DEF Goto, IInv, TypeOK, Stages, table
<1>4. CASE Goto(i, "connect") /\ "seed" \notin emails
             /\ Seeded /\ UNCHANGED <<schema, unsure, renames>>
  <2>1. emails' # {} /\ first' \in {first, "seed"} /\ first' # "nobody"
    BY <1>4 DEF Seeded, IInv, FirstOfAny
  <2>2. RoomForSeed' /\ SeededOnce'
    BY <1>4 DEF Seeded, IInv, TypeOK, RoomForSeed, SeededOnce
  <2>3. TypeOK'
    BY <1>4, <2>1 DEF Seeded, Goto, IInv, TypeOK, Stages
  <2>4. Migrated' /\ FirstOfAny' /\ AdminFirst'
    BY <1>1, <1>4, <2>1 DEF Goto, IInv, TypeOK, Migrated, FirstOfAny, AdminFirst, Stages
  <2>5. QED
    BY <2>2, <2>3, <2>4 DEF IInv
<1>5. QED
  BY <1>2, <1>3, <1>4 DEF Insert

\* Requests leave at least one row, and free the email of the seed only by a
\* counted rename; only an instance that overlooked a failure still finds no row.
LEMMA RequestStep == ASSUME IInv, NEW i \in Instances, Request(i) PROVE IInv'
<1>1. UNCHANGED <<stage, schema, unsure, seeds>>
  BY DEF Request
<1>2. emails' \in SUBSET {"seed", "other"} /\ emails' # {}
  BY DEF Request, Register, TakeSeedsEmail, GiveSeedsEmailUp, IInv, TypeOK
<1>3. /\ first' \in {"nobody", "seed", "oversight", "race"} \ {"nobody"}
      /\ first' # "race"
  BY DEF Request, Register, TakeSeedsEmail, GiveSeedsEmailUp, IInv, TypeOK, FirstOfAny, AdminFirst
<1>4. /\ renames' \in Nat
      /\ renames' = renames \/ renames' = renames + 1
      /\ "seed" \notin emails' => \/ renames' = renames /\ "seed" \notin emails
                               \/ renames' = renames + 1
  BY DEF Request, Register, TakeSeedsEmail, GiveSeedsEmailUp, IInv, TypeOK
<1>5. RoomForSeed' /\ SeededOnce'
  <2>1. seeds \in Nat /\ renames \in Nat /\ seeds <= 1 + renames /\ seeds' = seeds
    BY <1>1 DEF IInv, TypeOK, SeededOnce
  <2>2. CASE renames' = renames + 1
    BY <2>1, <2>2 DEF RoomForSeed, SeededOnce
  <2>3. CASE renames' = renames
    <3>1. renames # renames + 1
      BY <2>1
    <3>2. "seed" \notin emails' => "seed" \notin emails
      BY <1>4, <2>3, <3>1
    <3>3. QED
      BY <2>1, <2>3, <3>2 DEF IInv, RoomForSeed, SeededOnce
  <2>4. QED
    BY <1>4, <2>2, <2>3
<1>6. TypeOK'
  BY <1>1, <1>2, <1>3, <1>4 DEF IInv, TypeOK
<1>7. Migrated' /\ FirstOfAny' /\ AdminFirst'
  BY <1>1, <1>2, <1>3 DEF IInv, Migrated, FirstOfAny, AdminFirst
<1>8. QED
  BY <1>5, <1>6, <1>7 DEF IInv

\* The other steps move an instance and leave the table as it is.
LEMMA OtherSteps ==
  ASSUME IInv, NEW i \in Instances, Begin(i) \/ Migrate(i) \/ Connect(i) \/ Bind(i) \/ Exit(i)
  PROVE  IInv'
<1>1. CASE Begin(i)
  BY <1>1, TableStays DEF Begin, Goto, IInv, TypeOK, Stages
<1>2. CASE Migrate(i)
  BY <1>2 DEF Migrate, Goto, IInv, TypeOK, RoomForSeed, SeededOnce, Migrated, FirstOfAny, AdminFirst, Stages
<1>3. CASE Connect(i)
  BY <1>3, TableStays DEF Connect, Goto, IInv, TypeOK, Stages, Migrated, FirstOfAny, AdminFirst
<1>4. CASE Bind(i)
  BY <1>4, TableStays DEF Bind, Goto, IInv, TypeOK, Stages, Migrated, FirstOfAny, AdminFirst
<1>5. CASE Exit(i)
  BY <1>5, TableStays DEF Exit, Goto, IInv, TypeOK, Stages
<1>6. QED
  BY <1>1, <1>2, <1>3, <1>4, <1>5

\* The start-up keeps its invariant: seeds are paid for by renames, and whoever
\* is past init_db found or made a row, or overlooked a failure.
THEOREM Inductive == Spec => []IInv
<1>1. Init => IInv
  <2> SUFFICES ASSUME Init PROVE IInv
    OBVIOUS
  <2>1. TypeOK
    BY DEF Init, TypeOK, Stages
  <2>2. RoomForSeed /\ SeededOnce
    BY DEF Init, RoomForSeed, SeededOnce
  <2>3. Migrated /\ FirstOfAny /\ AdminFirst
    BY DEF Init, Migrated, FirstOfAny, AdminFirst
  <2>4. QED
    BY <2>1, <2>2, <2>3 DEF IInv
<1>2. IInv /\ [Next]_vars => IInv'
  <2> SUFFICES ASSUME IInv, [Next]_vars PROVE IInv'
    OBVIOUS
  <2>1. CASE UNCHANGED vars
    BY <2>1 DEF vars, IInv, TypeOK, RoomForSeed, SeededOnce, Migrated, FirstOfAny, AdminFirst
  <2>2. CASE Next
    BY <2>2, CountStep, SnapshotStep, InsertStep, RequestStep, OtherSteps DEF Next, InitDb
  <2>3. QED
    BY <2>1, <2>2
<1>3. QED
  BY <1>1, <1>2, PTL DEF Spec

\* However many instances race on an empty table, one admin account is seeded.
THEOREM SeedsOnce == Spec => []SeededOnce
<1>1. IInv => SeededOnce
  BY DEF IInv
<1>2. QED
  BY <1>1, Inductive, PTL

\* The first account is the seed's admin, unless it was registered through an
\* instance that overlooked a failed statement.
THEOREM AdminComesFirst == Spec => []AdminFirst
<1>1. IInv => AdminFirst
  BY DEF IInv
<1>2. QED
  BY <1>1, Inductive, PTL
=============================================================================
