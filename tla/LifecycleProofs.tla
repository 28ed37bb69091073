-------------------------- MODULE LifecycleProofs --------------------------
(***************************************************************************)
(* The invariant of Lifecycle, for every number of versions, ceiling, set  *)
(* of migrations and batch limit: it ties the record to the recorded       *)
(* version and the totals to the lengths of the indexes.  RunDriverProofs  *)
(* builds on it.                                                           *)
(***************************************************************************)
EXTENDS Lifecycle, TLAPS

RecordMatchesVersion ==
  /\ mig.status # "None" =>
       mig.from \in Versions /\ mig.to \in Versions /\ mig.to = mig.from + 1
  /\ mig.status \in {"Running", "RolledBack"} => version = mig.from
  /\ mig.status \in {"Completed", "RollingBack"} => version = mig.to

(* The total of a walk is never more than the index holds.                 *)
TotalIsIndexed ==
  /\ mig.status = "Running" => mig.total <= len[mig.from]
  /\ mig.status = "RollingBack" =>
       mig.cursor <= mig.total /\ mig.total <= len[mig.to]

LifeInv == LifeTypeOK /\ RecordMatchesVersion /\ TotalIsIndexed

(* A window stays inside its index.                                        *)
LEMMA WindowLenType ==
  ASSUME NEW n \in 0 .. MaxLen, NEW start \in 0 .. MaxLen, NEW limit \in Nat
  PROVE  /\ WindowLen(n, start, limit) \in 0 .. MaxLen
         /\ WindowLen(n, start, limit) \in Int
         /\ WindowLen(n, start, limit) <= limit
         /\ start + WindowLen(n, start, limit) \in 0 .. MaxLen
         /\ limit # 0 /\ WindowLen(n, start, limit) = 0 => start >= n
BY LifecycleAssumption DEF WindowLen, Least

(* Versions are positive numbers, and the initial one is among them.       *)
LEMMA VersionsAreNat ==
  Versions \subseteq Nat \ {0} /\ INITIAL_VERSION \in Versions
BY LifecycleAssumption DEF Versions, INITIAL_VERSION

(* A version is not the next one. *)
LEMMA NextIsOther == \A v \in Versions : \A w : w = v + 1 => v # w
<1>1. \A v \in Nat : \A w : w = v + 1 => v # w
  OBVIOUS
<1> QED
  BY <1>1, VersionsAreNat

(* LifeInv holds of a contract nobody has called yet. *)
LEMMA LifeInvInit == LifeInit => LifeInv
BY LifecycleAssumption, VersionsAreNat
   DEF LifeInit, LifeInv, LifeTypeOK, RecordMatchesVersion, TotalIsIndexed,
       NoMigration, Statuses

(* What a forward batch does.                                              *)
LEMMA BatchStep ==
  ASSUME LifeInv, NEW m \in Migrations, NEW limit \in Nat, Batch(m, limit)
  PROVE  \E n \in 0 .. MaxBatch :
           /\ m.from \in Versions /\ m.to \in Versions /\ m.to = m.from + 1
           /\ mig.status = "Running" /\ mig.from = m.from /\ mig.to = m.to
           /\ version = m.from
           /\ n = 0 => mig.cursor >= len[m.from]
           /\ mig.cursor + n \in 0 .. MaxLen
           /\ len[m.to] + n \in 0 .. MaxLen
           /\ len' = [len EXCEPT ![m.to] = @ + n]
           /\ mig' = [status |-> IF mig.cursor + n >= len[m.from]
                                 THEN "Completed" ELSE "Running",
                      from |-> m.from, to |-> m.to,
                      cursor |-> mig.cursor + n, total |-> len[m.from]]
           /\ version' = IF mig.cursor + n >= len[m.from] THEN m.to ELSE version
<1> USE DEF LifeInv, LifeTypeOK
<1>1. /\ mig.status = "Running" /\ mig.from = m.from /\ mig.to = m.to
      /\ limit \in 1 .. MaxBatch /\ limit # 0
  BY LifecycleAssumption DEF Batch, CanBatch, IsRecordOf
<1>2. /\ m.from \in Versions /\ m.to \in Versions /\ m.to = m.from + 1
      /\ version = m.from
  BY <1>1 DEF RecordMatchesVersion
<1>3. /\ len[m.from] \in 0 .. MaxLen /\ len[m.to] \in 0 .. MaxLen
      /\ mig.cursor \in 0 .. MaxLen /\ mig.total \in 0 .. MaxLen
  BY <1>2
<1>4. PICK n \in Int : n = WindowLen(len[m.from], mig.cursor, limit)
  BY <1>1, <1>3, WindowLenType
<1>5. /\ n \in 0 .. MaxLen /\ n <= limit /\ mig.cursor + n \in 0 .. MaxLen
      /\ n = 0 => mig.cursor >= len[m.from]
  BY <1>1, <1>3, <1>4, WindowLenType
<1>6. Greatest(mig.total, len[m.from]) = len[m.from]
  BY <1>1, <1>3, LifecycleAssumption DEF TotalIsIndexed, Greatest
<1>7. /\ len[m.to] + n <= MaxLen
      /\ len' = [len EXCEPT ![m.to] = @ + n]
      /\ mig' = [mig EXCEPT !.cursor = mig.cursor + n, !.total = len[m.from],
                            !.status = IF mig.cursor + n >= len[m.from]
                                       THEN "Completed" ELSE @]
      /\ version' = IF mig.cursor + n >= len[m.from] THEN m.to ELSE version
  BY <1>4, <1>6 DEF Batch, Done
<1>8. n \in 0 .. MaxBatch /\ len[m.to] + n \in 0 .. MaxLen
  BY <1>1, <1>3, <1>5, <1>7, LifecycleAssumption
<1>9. mig' = [status |-> IF mig.cursor + n >= len[m.from]
                         THEN "Completed" ELSE "Running",
              from |-> m.from, to |-> m.to,
              cursor |-> mig.cursor + n, total |-> len[m.from]]
  BY <1>1, <1>7
<1> QED
  BY <1>1, <1>2, <1>5, <1>7, <1>8, <1>9

(* What a rollback batch does.                                             *)
LEMMA RollbackBatchStep ==
  ASSUME LifeInv, NEW m \in Migrations, NEW limit \in Nat, RollbackBatch(m, limit)
  PROVE  \E end \in 0 .. MaxLen, n \in 0 .. MaxLen :
           /\ m.from \in Versions /\ m.to \in Versions /\ m.to = m.from + 1
           /\ mig.status = "RollingBack" /\ mig.from = m.from /\ mig.to = m.to
           /\ version = m.to
           /\ mig.cursor <= end /\ end <= mig.total
           /\ len[m.from] + n \in 0 .. MaxLen
           /\ len' = [len EXCEPT ![m.from] = @ + n]
           /\ mig' = [status |-> IF end >= mig.total THEN "RolledBack" ELSE "RollingBack",
                      from |-> m.from, to |-> m.to, cursor |-> end, total |-> mig.total]
           /\ version' = IF end >= mig.total THEN m.from ELSE version
<1> USE DEF LifeInv, LifeTypeOK
<1>1. /\ mig.status = "RollingBack" /\ mig.from = m.from /\ mig.to = m.to
      /\ limit \in 1 .. MaxBatch
  BY DEF RollbackBatch, IsRecordOf
<1>2. /\ m.from \in Versions /\ m.to \in Versions /\ m.to = m.from + 1
      /\ version = m.to
  BY <1>1 DEF RecordMatchesVersion
<1>3. /\ len[m.from] \in 0 .. MaxLen /\ len[m.to] \in 0 .. MaxLen
      /\ mig.cursor \in 0 .. MaxLen /\ mig.total \in 0 .. MaxLen
      /\ mig.cursor <= mig.total
  BY <1>1, <1>2 DEF TotalIsIndexed
<1>4. PICK end \in Int : end = Least(mig.cursor + limit, mig.total)
  BY <1>1, <1>3 DEF Least
<1>5. /\ end \in 0 .. MaxLen /\ mig.cursor <= end /\ end <= mig.total
      /\ mig.total - end \in 0 .. MaxLen /\ end - mig.cursor \in Nat
  BY <1>1, <1>3, <1>4, LifecycleAssumption DEF Least
<1>6. PICK n \in Int : n = WindowLen(len[m.to], mig.total - end, end - mig.cursor)
  BY <1>3, <1>5, WindowLenType
<1>7. n \in 0 .. MaxLen
  BY <1>3, <1>5, <1>6, WindowLenType
<1>8. /\ len[m.from] + n <= MaxLen
      /\ len' = [len EXCEPT ![m.from] = @ + n]
      /\ mig' = [mig EXCEPT !.cursor = end,
                            !.status = IF end >= mig.total THEN "RolledBack" ELSE @]
      /\ version' = IF end >= mig.total THEN m.from ELSE version
  BY <1>4, <1>6 DEF RollbackBatch, Done
<1>9. len[m.from] + n \in 0 .. MaxLen
  BY <1>3, <1>7, <1>8, LifecycleAssumption
<1>10. mig' = [status |-> IF end >= mig.total THEN "RolledBack" ELSE "RollingBack",
               from |-> m.from, to |-> m.to, cursor |-> end, total |-> mig.total]
  BY <1>1, <1>8
<1> QED
  BY <1>1, <1>2, <1>5, <1>7, <1>8, <1>9, <1>10

(* Every step of the record's life keeps the invariant.                    *)
LEMMA LifeInvDeclare == ASSUME LifeInv, Declare PROVE LifeInv'
BY VersionsAreNat
   DEF LifeInv, LifeTypeOK, RecordMatchesVersion, TotalIsIndexed, Declare,
       NoVersion, Statuses

(* A registration keeps LifeInv: it lengthens one index.                   *)
LEMMA LifeInvRegister == ASSUME LifeInv, Register PROVE LifeInv'
<1> USE DEF LifeInv, LifeTypeOK
<1>1. PICK v \in {Written, Recorded} :
        /\ len[v] < MaxLen
        /\ len' = [len EXCEPT ![v] = @ + 1]
        /\ UNCHANGED << version, mig >>
  BY DEF Register
<1>2. v \in Versions
  BY VersionsAreNat DEF Written, Recorded, RecordMatchesVersion, NoVersion
<1>3. /\ len[v] \in 0 .. MaxLen /\ len' \in [Versions -> 0 .. MaxLen]
      /\ \A w \in Versions : len'[w] = IF w = v THEN len[v] + 1 ELSE len[w]
  BY <1>1, <1>2, LifecycleAssumption
<1>4. \A w \in Versions : len[w] \in Int /\ len'[w] \in Int /\ len'[w] >= len[w]
  BY <1>3, LifecycleAssumption
<1>5. TotalIsIndexed'
  BY <1>1, <1>4, LifecycleAssumption DEF TotalIsIndexed, RecordMatchesVersion
<1> QED
  BY <1>1, <1>3, <1>5 DEF RecordMatchesVersion

(* begin keeps LifeInv: the new record agrees with the version.            *)
LEMMA LifeInvBegin ==
  ASSUME LifeInv, NEW m \in Migrations, Begin(m) PROVE LifeInv'
<1> USE DEF LifeInv, LifeTypeOK
<1>1. /\ m.from \in Versions /\ m.to \in Versions /\ m.to = m.from + 1
      /\ version = m.from /\ UNCHANGED << version, len >>
      /\ mig' = [status |-> "Running", from |-> m.from, to |-> m.to,
                 cursor |-> 0, total |-> len[m.from]]
  BY LifecycleAssumption DEF Begin, CanBegin
<1>2. len[m.from] \in 0 .. MaxLen
  BY <1>1
<1> QED
  BY <1>1, <1>2, LifecycleAssumption
     DEF RecordMatchesVersion, TotalIsIndexed, Statuses

(* A batch keeps LifeInv: the version moves with the status.               *)
LEMMA LifeInvBatch ==
  ASSUME LifeInv, NEW m \in Migrations, NEW limit \in Nat, Batch(m, limit)
  PROVE  LifeInv'
<1> USE DEF LifeInv, LifeTypeOK
<1>1. PICK n \in 0 .. MaxBatch :
        /\ m.from \in Versions /\ m.to \in Versions /\ m.to = m.from + 1
        /\ version = m.from
        /\ mig.cursor + n \in 0 .. MaxLen
        /\ len[m.to] + n \in 0 .. MaxLen
        /\ len' = [len EXCEPT ![m.to] = @ + n]
        /\ mig' = [status |-> IF mig.cursor + n >= len[m.from]
                              THEN "Completed" ELSE "Running",
                   from |-> m.from, to |-> m.to,
                   cursor |-> mig.cursor + n, total |-> len[m.from]]
        /\ version' = IF mig.cursor + n >= len[m.from] THEN m.to ELSE version
  BY BatchStep
<1>2. m.from # m.to
  BY <1>1, NextIsOther
<1>3. len' \in [Versions -> 0 .. MaxLen] /\ len'[m.from] = len[m.from]
  BY <1>1, <1>2
<1>4. LifeTypeOK'
  BY <1>1, <1>3 DEF Statuses
<1> QED
  BY <1>1, <1>3, <1>4, LifecycleAssumption DEF RecordMatchesVersion, TotalIsIndexed

(* abort and clear keep LifeInv: there is no record any more.              *)
LEMMA LifeInvEnd == ASSUME LifeInv, Abort \/ Clear PROVE LifeInv'
BY VersionsAreNat, LifecycleAssumption
   DEF LifeInv, LifeTypeOK, RecordMatchesVersion, TotalIsIndexed, Abort, Clear,
       NoMigration, Statuses

(* rollback::begin keeps LifeInv: the total it pins is the length of the   *)
(* index it walks.                                                         *)
LEMMA LifeInvRollbackBegin ==
  ASSUME LifeInv, NEW m \in Migrations, RollbackBegin(m) PROVE LifeInv'
<1> USE DEF LifeInv, LifeTypeOK
<1>1. /\ m.from \in Versions /\ m.to \in Versions /\ m.to = m.from + 1
      /\ version = m.to /\ version' = version
      /\ len' = [len EXCEPT ![m.from] = 0]
      /\ mig' = [status |-> "RollingBack", from |-> m.from, to |-> m.to,
                 cursor |-> 0, total |-> len[m.to]]
  BY LifecycleAssumption DEF RollbackBegin
<1>2. m.from # m.to
  BY <1>1, NextIsOther
<1>3. /\ len[m.to] \in 0 .. MaxLen /\ len' \in [Versions -> 0 .. MaxLen]
      /\ len'[m.to] = len[m.to]
  BY <1>1, <1>2, LifecycleAssumption
<1> QED
  BY <1>1, <1>3, LifecycleAssumption
     DEF RecordMatchesVersion, TotalIsIndexed, Statuses

(* A rollback batch keeps LifeInv.                                         *)
LEMMA LifeInvRollbackBatch ==
  ASSUME LifeInv, NEW m \in Migrations, NEW limit \in Nat, RollbackBatch(m, limit)
  PROVE  LifeInv'
<1> USE DEF LifeInv, LifeTypeOK
<1>1. PICK end \in 0 .. MaxLen, n \in 0 .. MaxLen :
        /\ m.from \in Versions /\ m.to \in Versions /\ m.to = m.from + 1
        /\ mig.status = "RollingBack" /\ mig.to = m.to
        /\ version = m.to
        /\ mig.cursor <= end /\ end <= mig.total
        /\ len[m.from] + n \in 0 .. MaxLen
        /\ len' = [len EXCEPT ![m.from] = @ + n]
        /\ mig' = [status |-> IF end >= mig.total THEN "RolledBack" ELSE "RollingBack",
                   from |-> m.from, to |-> m.to, cursor |-> end, total |-> mig.total]
        /\ version' = IF end >= mig.total THEN m.from ELSE version
  BY RollbackBatchStep
<1>2. m.from # m.to
  BY <1>1, NextIsOther
<1>3. len' \in [Versions -> 0 .. MaxLen] /\ len'[m.to] = len[m.to]
  BY <1>1, <1>2
<1>4. LifeTypeOK'
  BY <1>1, <1>3 DEF Statuses
<1> QED
  BY <1>1, <1>3, <1>4, LifecycleAssumption DEF RecordMatchesVersion, TotalIsIndexed

(* Every step keeps LifeInv.                                               *)
LEMMA LifeInvStep ==
  ASSUME LifeInv, [LifeNext]_lifeVars PROVE LifeInv'
<1>1. CASE UNCHANGED lifeVars
  BY <1>1 DEF lifeVars, LifeInv, LifeTypeOK, RecordMatchesVersion, TotalIsIndexed
<1> QED
  BY <1>1, LifecycleAssumption, LifeInvDeclare, LifeInvRegister, LifeInvBegin,
     LifeInvBatch, LifeInvEnd, LifeInvRollbackBegin, LifeInvRollbackBatch
     DEF LifeNext

(* The recorded version and the migration record agree, and the total of a *)
(* walk never exceeds the index it walks (executor.rs:232-247, rollback.rs *)
(* 80-98): whatever order begins, batches, aborts and rollbacks come in.   *)
THEOREM RecordAgreesWithVersion == LifeSpec => []LifeInv
BY LifeInvInit, LifeInvStep, PTL DEF LifeSpec
=============================================================================
