------------------------------ MODULE Lifecycle ------------------------------
(***************************************************************************)
(* The life of a migration record, with the key indexes reduced to their   *)
(* lengths: what the executor and the rollback promise about the version,  *)
(* the record and the number of keys, whatever the keys are.  Migration    *)
(* implements it; RunDriver composes it with operators.                    *)
(***************************************************************************)
EXTENDS Integers

CONSTANTS
  MaxVersion,   \* the versions are 1 .. MaxVersion
  MaxLen,       \* the ceiling of an index's u32 counter
  Migrations,   \* the Migration implementations the builds carry
  MaxBatch,     \* executor::MAX_KEYS_PER_BATCH
  Limits        \* the limits callers pass to batch

Versions == 1 .. MaxVersion

INITIAL_VERSION == 1
NoVersion == 0

ASSUME LifecycleAssumption ==
  /\ MaxVersion \in Nat \ {0}
  /\ MaxLen \in Nat
  /\ Migrations \subseteq [from : Versions, to : Versions, down : BOOLEAN]
  /\ MaxBatch \in Nat \ {0}
  /\ Limits \subseteq Nat

VARIABLES
  version,   \* the recorded version
  mig,       \* the migration record
  len        \* the length of every version's index

lifeVars == << version, mig, len >>

Least(a, b) == IF a <= b THEN a ELSE b
Greatest(a, b) == IF a >= b THEN a ELSE b

Statuses == {"None", "Running", "Completed", "RollingBack", "RolledBack"}

NoMigration == [status |-> "None", from |-> 0, to |-> 0, cursor |-> 0, total |-> 0]

LifeTypeOK ==
  /\ version \in Versions \cup {NoVersion}
  /\ mig \in [status : Statuses,
              from : Versions \cup {0}, to : Versions \cup {0},
              cursor : 0 .. MaxLen, total : 0 .. MaxLen]
  /\ len \in [Versions -> 0 .. MaxLen]

LifeInit ==
  /\ version = NoVersion
  /\ mig = NoMigration
  /\ len = [v \in Versions |-> 0]

-----------------------------------------------------------------------------
(* Mutants: plausible slips in the definitions that follow.                *)

\* begin starts over instead of resuming.
CanBegin_Restarts(m) ==
  /\ m.to = m.from + 1
  /\ version = m.from
  /\ mig.status \in {"None", "Completed", "Running"}

\* batch takes a rollback for a run in flight.
CanBatch_AnyActive(m, limit) ==
  /\ limit \in 1 .. MaxBatch
  /\ mig.status \in {"Running", "RollingBack"}
  /\ mig.from = m.from /\ mig.to = m.to

\* rollback::begin starts over instead of resuming.
RollbackBegin_Restarts(m) ==
  /\ m.to = m.from + 1
  /\ m.down
  /\ mig.status \in {"Completed", "RollingBack"}
  /\ mig.from = m.from /\ mig.to = m.to
  /\ version = m.to
  /\ len' = [len EXCEPT ![m.from] = 0]
  /\ mig' = [status |-> "RollingBack", from |-> m.from, to |-> m.to,
             cursor |-> 0, total |-> len[m.to]]
  /\ UNCHANGED version

\* The u32 counter of an index has no ceiling.
Register_NoCeiling ==
  /\ len' = [len EXCEPT ![IF mig.status = "Running" THEN mig.to ELSE INITIAL_VERSION] = @ + 1]
  /\ UNCHANGED << version, mig >>

\* > for >=.
Done_Strict(cursor, total) == cursor > total

-----------------------------------------------------------------------------
IsActive == mig.status \in {"Running", "RollingBack"}
IsRecordOf(m) == mig.from = m.from /\ mig.to = m.to

(* How many keys a batch visits of an index of n keys, from a position on. *)
WindowLen(n, start, limit) == IF start >= n THEN 0 ELSE Least(limit, n - start)

Done(cursor, total) == cursor >= total

(* version::initialize or adopt, on a contract without a version: at the   *)
(* version whose shape its entries have, the first one or a later one.     *)
Declare ==
  /\ version = NoVersion
  /\ version' \in Versions
  /\ UNCHANGED << mig, len >>

(* A key is registered: under the version in force for writes, or, when an *)
(* unindexed entry is backfilled, under the recorded one.                  *)
Recorded == IF version = NoVersion THEN INITIAL_VERSION ELSE version
Written == IF mig.status = "Running" THEN mig.to ELSE Recorded

Register ==
  \E v \in {Written, Recorded} :
    /\ len[v] < MaxLen
    /\ len' = [len EXCEPT ![v] = @ + 1]
    /\ UNCHANGED << version, mig >>

(* executor::begin, where it writes.                                       *)
CanBegin(m) ==
  /\ m.to = m.from + 1
  /\ version = m.from
  /\ mig.status # "None" => ~IsRecordOf(m) /\ ~IsActive

Begin(m) ==
  /\ CanBegin(m)
  /\ mig' = [status |-> "Running", from |-> m.from, to |-> m.to,
             cursor |-> 0, total |-> len[m.from]]
  /\ UNCHANGED << version, len >>

(* executor::batch on a running migration.                                 *)
CanBatch(m, limit) ==
  /\ limit \in 1 .. MaxBatch
  /\ mig.status = "Running"
  /\ IsRecordOf(m)

Batch(m, limit) ==
  LET n      == WindowLen(len[m.from], mig.cursor, limit)
      cursor == mig.cursor + n
      total  == Greatest(mig.total, len[m.from])
      done   == Done(cursor, total)
  IN  /\ CanBatch(m, limit)
      /\ len[m.to] + n <= MaxLen
      /\ len' = [len EXCEPT ![m.to] = @ + n]
      /\ mig' = [mig EXCEPT !.cursor = cursor, !.total = total,
                            !.status = IF done THEN "Completed" ELSE @]
      /\ version' = IF done THEN m.to ELSE version

(* executor::abort and clear.                                              *)
Abort == IsActive /\ mig' = NoMigration /\ UNCHANGED << version, len >>

Clear ==
  /\ mig.status \in {"Completed", "RolledBack"}
  /\ mig' = NoMigration
  /\ UNCHANGED << version, len >>

(* rollback::begin on a completed migration.                               *)
RollbackBegin(m) ==
  /\ m.to = m.from + 1
  /\ m.down
  /\ mig.status = "Completed"
  /\ IsRecordOf(m)
  /\ version = m.to
  /\ len' = [len EXCEPT ![m.from] = 0]
  /\ mig' = [status |-> "RollingBack", from |-> m.from, to |-> m.to,
             cursor |-> 0, total |-> len[m.to]]
  /\ UNCHANGED version

(* rollback::batch.                                                        *)
RollbackBatch(m, limit) ==
  LET end  == Least(mig.cursor + limit, mig.total)
      n    == WindowLen(len[m.to], mig.total - end, end - mig.cursor)
      done == Done(end, mig.total)
  IN  /\ limit \in 1 .. MaxBatch
      /\ mig.status = "RollingBack"
      /\ IsRecordOf(m)
      /\ len[m.to] <= mig.total
      /\ len[m.from] + n <= MaxLen
      /\ len' = [len EXCEPT ![m.from] = @ + n]
      /\ mig' = [mig EXCEPT !.cursor = end,
                            !.status = IF done THEN "RolledBack" ELSE @]
      /\ version' = IF done THEN m.from ELSE version

LifeNext ==
  \/ Declare \/ Register \/ Abort \/ Clear
  \/ \E m \in Migrations : Begin(m) \/ RollbackBegin(m)
  \/ \E m \in Migrations, limit \in Limits :
       Batch(m, limit) \/ RollbackBatch(m, limit)

LifeSpec == LifeInit /\ [][LifeNext]_lifeVars
=============================================================================
