-------------------------- MODULE MigrationProofs --------------------------
(***************************************************************************)
(* Theorems of Migration, for every set of keys, migrations, versions,     *)
(* page size, batch limit and ceiling.                                     *)
(*                                                                         *)
(* First, of the whole specification, rollbacks included: the types, that  *)
(* no batch ever meets a corrupt index, and how the version moves.  The    *)
(* invariant ties the migration record to the recorded version.            *)
(***************************************************************************)
EXTENDS Migration, KeyIndexProofs

RecordOK ==
  /\ mig.status # "None" =>
       mig.from \in Versions /\ mig.to \in Versions /\ mig.to = mig.from + 1
  /\ mig.status \in {"Running", "RolledBack"} => version = mig.from
  /\ mig.status \in {"Completed", "RollingBack"} => version = mig.to
  /\ mig.status = "RollingBack" =>
       mig.cursor <= mig.total /\ mig.total <= index[mig.to].len

IndexesCover == \A v \in Versions : Covers(index[v])

RecordInv == TypeOK /\ RecordOK /\ IndexesCover

(* Versions are positive numbers, and the initial one is among them.       *)
LEMMA VersionsAreNat == Versions \subseteq Nat \ {0} /\ INITIAL_VERSION \in Versions
BY MigrationAssumption DEF Versions, INITIAL_VERSION

(* The version a write belongs to is a version.                            *)
LEMMA CurrentVersionType ==
  ASSUME RecordInv
  PROVE  CurrentVersion \in Versions
BY VersionsAreNat DEF RecordInv, TypeOK, RecordOK, CurrentVersion, NoVersion

(* RecordInv holds of a contract nobody has called yet.                    *)
LEMMA RecordInvInit == Init => RecordInv
<1> SUFFICES ASSUME Init PROVE RecordInv
  OBVIOUS
<1>1. \A v \in Versions : index[v] \in Index /\ Covers(index[v])
  BY EmptyCovers, CleanCovers DEF Init
<1>2. TypeOK
  BY <1>1, VersionsAreNat, KeyIndexAssumption, EmptyCovers
     DEF Init, TypeOK, NoMigration, Statuses, Absent
<1>3. RecordOK
  BY DEF Init, RecordOK, NoMigration
<1> QED
  BY <1>1, <1>2, <1>3 DEF RecordInv, IndexesCover

(* The actions that leave the record and the indexes alone.                *)
LEMMA RecordInvOtherSteps ==
  ASSUME RecordInv,
         \/ Declare
         \/ \E k \in Keys : PutUnindexed(k) \/ Remove(k)
         \/ \E v \in Versions : Deploy(v)
         \/ UNCHANGED vars
  PROVE  RecordInv'
<1> USE VersionsAreNat DEF RecordInv, TypeOK, RecordOK, IndexesCover
<1>1. CASE Declare
  <2>1. version = NoVersion /\ version' \in Versions
    BY <1>1 DEF Declare, Initialize, Adopt
  <2>2. /\ UNCHANGED << mig, index, shape, code, registered >>
        /\ stranded' \in {stranded, registered}
    BY <1>1 DEF Declare, Initialize, Adopt, StrandedBy
  <2>3. mig.status = "None"
    BY <2>1 DEF Statuses, NoVersion
  <2> QED
    BY <2>1, <2>2, <2>3
<1>2. ASSUME NEW k \in Keys, PutUnindexed(k)
      PROVE  RecordInv'
  BY <1>2 DEF PutUnindexed
<1>3. ASSUME NEW k \in Keys, Remove(k)
      PROVE  RecordInv'
  BY <1>3 DEF Remove, Absent
<1>4. ASSUME NEW v \in Versions, Deploy(v)
      PROVE  RecordInv'
  BY <1>4 DEF Deploy
<1>5. CASE UNCHANGED vars
  BY <1>5 DEF vars
<1> QED
  BY <1>1, <1>2, <1>3, <1>4, <1>5

(* One registration, by put or directly, under any version.                *)
LEMMA RecordInvRegister ==
  ASSUME RecordInv, NEW v \in Versions, NEW k \in Keys, index[v].len < MaxLen,
         index' = [index EXCEPT ![v] = Register(@, k)],
         shape' \in [Keys -> Versions \cup {Absent}],
         registered' = registered \cup {k},
         stranded' = stranded \ {k},
         UNCHANGED << version, mig, code >>
  PROVE  RecordInv'
<1> USE DEF RecordInv, TypeOK, RecordOK, IndexesCover
<1>1. index[v] \in Index /\ Covers(index[v]) /\ index[v].len \in Nat
  BY KeyIndexAssumption DEF Index
<1>2. /\ Register(index[v], k) \in Index
      /\ Covers(Register(index[v], k))
      /\ Register(index[v], k).len = index[v].len + 1
  BY <1>1, RegisterCovers
<1>3. index' \in [Versions -> Index] /\ \A w \in Versions : Covers(index'[w])
  BY <1>2
<1>4. \A w \in Versions : index[w].len \in Nat /\ index'[w].len \in Nat
  BY <1>3, KeyIndexAssumption DEF Index
<1>5. \A w \in Versions : index'[w].len >= index[w].len
  BY <1>1, <1>2, <1>4
<1>6. TypeOK'
  BY <1>3
<1>7. RecordOK'
  BY <1>4, <1>5
<1> QED
  BY <1>3, <1>6, <1>7

(* What a batch, forward or backward, visits and writes.                   *)
LEMMA WindowType ==
  ASSUME NEW idx \in Index, NEW start \in 0 .. MaxLen, NEW limit \in Nat,
         RangeReadable(idx, start, limit)
  PROVE  /\ RangeOf(idx, start, limit) \in Seq(Keys)
         /\ Len(RangeOf(idx, start, limit)) \in 0 .. limit
         /\ start + Len(RangeOf(idx, start, limit)) \in 0 .. MaxLen
<1>1. start \in Nat /\ idx.len \in 0 .. MaxLen
  BY KeyIndexAssumption DEF Index
<1> QED
  BY <1>1, RangeType, KeyIndexAssumption

(* Walking a window backwards visits the same keys.                        *)
LEMMA NewestFirstType ==
  ASSUME NEW w \in Seq(Keys)
  PROVE  /\ NewestFirst(w) \in Seq(Keys)
         /\ Len(NewestFirst(w)) = Len(w)
         /\ KeysOf(NewestFirst(w)) = KeysOf(w)
<1>1. PICK n \in Nat : n = Len(w)
  BY LenProperties
<1>2. \A i \in 1 .. n : n + 1 - i \in 1 .. n /\ w[n + 1 - i] \in Keys
  BY <1>1, ElementOfSeq
<1>3. NewestFirst(w) = [i \in 1 .. n |-> w[n + 1 - i]]
  BY <1>1 DEF NewestFirst
<1>4. NewestFirst(w) \in Seq(Keys)
  BY <1>2, <1>3, IsASeq
<1>5. Len(NewestFirst(w)) = n
  BY <1>3
<1>6. DOMAIN w = 1 .. n /\ DOMAIN NewestFirst(w) = 1 .. n
  BY <1>1, <1>3, LenProperties
<1>7. \A k \in KeysOf(w) : k \in KeysOf(NewestFirst(w))
  <2> TAKE k \in KeysOf(w)
  <2>1. PICK i \in 1 .. n : k = w[i]
    BY <1>6 DEF KeysOf
  <2>2. n + 1 - i \in 1 .. n /\ n + 1 - (n + 1 - i) = i
    OBVIOUS
  <2>3. NewestFirst(w)[n + 1 - i] = k
    BY <1>3, <2>1, <2>2
  <2> QED
    BY <1>6, <2>2, <2>3 DEF KeysOf
<1>8. \A k \in KeysOf(NewestFirst(w)) : k \in KeysOf(w)
  BY <1>2, <1>3, <1>6 DEF KeysOf
<1> QED
  BY <1>1, <1>4, <1>5, <1>7, <1>8

-----------------------------------------------------------------------------
(* The forward actions.                                                    *)
(* begin keeps RecordInv.                                                  *)
LEMMA RecordInvBegin ==
  ASSUME RecordInv, NEW m \in Migrations, Begin(m)
  PROVE  RecordInv'
<1> USE DEF RecordInv, TypeOK, RecordOK, IndexesCover
<1>1. m.from \in Versions /\ m.to \in Versions /\ m.to = m.from + 1
  BY MigrationAssumption DEF Begin
<1>2. index[m.from].len \in 0 .. MaxLen
  BY <1>1 DEF Index
<1>3. mig' = [status |-> "Running", from |-> m.from, to |-> m.to,
              cursor |-> 0, total |-> index[m.from].len]
  BY DEF Begin
<1>4. UNCHANGED << version, index, shape, code, registered, stranded >> /\ version = m.from
  BY DEF Begin
<1> QED
  BY <1>1, <1>2, <1>3, <1>4, KeyIndexAssumption DEF Statuses

(* What up and down do to the shapes keeps their type.                     *)
LEMMA UpDownType ==
  ASSUME TypeOK, NEW m \in Migrations, NEW ks
  PROVE  /\ Up(m, ks) \in [Keys -> Versions \cup {Absent}]
         /\ Down(m, ks) \in [Keys -> Versions \cup {Absent}]
<1>1. m.from \in Versions /\ m.to \in Versions
  BY MigrationAssumption
<1> QED
  BY <1>1 DEF TypeOK, Up, Down

(* The facts about a forward batch that the invariants need.               *)
LEMMA BatchStep ==
  ASSUME RecordInv, NEW m \in Migrations, NEW limit \in Limits, Batch(m, limit)
  PROVE  LET window == RangeOf(index[m.from], mig.cursor, limit)
         IN  /\ mig.from = m.from /\ mig.to = m.to /\ version = m.from
             /\ m.from \in Versions /\ m.to \in Versions /\ m.to = m.from + 1
             /\ mig.status = "Running"
             /\ window \in Seq(Keys)
             /\ Len(window) = RangeLen(index[m.from], mig.cursor, limit)
             /\ mig.cursor + Len(window) \in 0 .. MaxLen
             /\ index[m.to].len + Len(window) <= MaxLen
             /\ shape' = Up(m, KeysOf(window))
             /\ index' = [index EXCEPT ![m.to] = RegisterAll(@, window)]
             /\ mig'.from = m.from /\ mig'.to = m.to
             /\ mig'.cursor = mig.cursor + Len(window)
             /\ mig'.total = Greatest(mig.total, index[m.from].len)
             /\ mig'.status \in {"Running", "Completed"}
             /\ mig' \in [status : Statuses,
                          from : Versions \cup {0}, to : Versions \cup {0},
                          cursor : 0 .. MaxLen, total : 0 .. MaxLen]
             /\ IF mig'.cursor >= mig'.total
                THEN mig'.status = "Completed" /\ version' = m.to
                ELSE mig'.status = "Running" /\ version' = version
             /\ UNCHANGED << code, registered, stranded >>
<1> DEFINE window == RangeOf(index[m.from], mig.cursor, limit)
<1>1. /\ mig.status = "Running" /\ mig.from = m.from /\ mig.to = m.to
      /\ RangeReadable(index[m.from], mig.cursor, limit)
      /\ index[m.to].len + Len(window) <= MaxLen
      /\ limit \in Nat
      /\ shape' = Up(m, KeysOf(window))
      /\ index' = [index EXCEPT ![m.to] = RegisterAll(@, window)]
      /\ UNCHANGED << code, registered, stranded >>
  BY MigrationAssumption DEF Batch, IsRecordOf
<1>2. /\ m.from \in Versions /\ m.to \in Versions /\ m.to = m.from + 1
      /\ version = m.from
  BY <1>1, MigrationAssumption DEF RecordInv, RecordOK
<1>3. index[m.from] \in Index /\ index[m.from].len \in 0 .. MaxLen
  BY <1>2 DEF RecordInv, TypeOK, Index
<1>4. mig.cursor \in 0 .. MaxLen /\ mig.total \in 0 .. MaxLen
  BY DEF RecordInv, TypeOK
<1>5. /\ window \in Seq(Keys)
      /\ mig.cursor + Len(window) \in 0 .. MaxLen
      /\ Len(window) = RangeLen(index[m.from], mig.cursor, limit)
  BY <1>1, <1>3, <1>4, WindowType, RangeType, KeyIndexAssumption
<1> DEFINE cursor == mig.cursor + Len(window)
           total == Greatest(mig.total, index[m.from].len)
<1>6. total \in 0 .. MaxLen
  BY <1>3, <1>4, KeyIndexAssumption DEF Greatest
<1>7. /\ mig' = [mig EXCEPT !.cursor = cursor, !.total = total,
                           !.status = IF cursor >= total THEN "Completed" ELSE @]
      /\ version' = IF cursor >= total THEN m.to ELSE version
  BY DEF Batch, CursorAfter, AbsorbedTotal, IsDone
<1> HIDE DEF window, cursor, total
<1>8. mig \in [status : Statuses, from : Versions \cup {0}, to : Versions \cup {0},
               cursor : 0 .. MaxLen, total : 0 .. MaxLen]
  BY DEF RecordInv, TypeOK
<1>9. cursor \in 0 .. MaxLen
  BY <1>5 DEF cursor
<1>10. mig' = [status |-> IF cursor >= total THEN "Completed" ELSE mig.status,
               from |-> mig.from, to |-> mig.to, cursor |-> cursor, total |-> total]
  BY <1>7, <1>8
<1>11. /\ mig' \in [status : Statuses, from : Versions \cup {0}, to : Versions \cup {0},
                    cursor : 0 .. MaxLen, total : 0 .. MaxLen]
       /\ mig'.status \in {"Running", "Completed"}
  BY <1>1, <1>2, <1>6, <1>9, <1>10 DEF Statuses
<1>12. /\ mig'.from = m.from /\ mig'.to = m.to
       /\ mig'.cursor = mig.cursor + Len(window)
       /\ mig'.total = Greatest(mig.total, index[m.from].len)
       /\ IF mig'.cursor >= mig'.total
          THEN mig'.status = "Completed" /\ version' = m.to
          ELSE mig'.status = "Running" /\ version' = version
  BY <1>1, <1>7, <1>10 DEF cursor, total
<1> QED
  BY <1>1, <1>2, <1>5, <1>11, <1>12 DEF window

(* A forward batch keeps RecordInv.                                        *)
LEMMA RecordInvBatch ==
  ASSUME RecordInv, NEW m \in Migrations, NEW limit \in Limits, Batch(m, limit)
  PROVE  RecordInv'
<1>1. PICK window : window = RangeOf(index[m.from], mig.cursor, limit)
  OBVIOUS
<1>2. /\ mig.from = m.from /\ mig.to = m.to /\ version = m.from
      /\ m.from \in Versions /\ m.to \in Versions /\ m.to = m.from + 1
      /\ window \in Seq(Keys)
      /\ index[m.to].len + Len(window) <= MaxLen
      /\ shape' = Up(m, KeysOf(window))
      /\ index' = [index EXCEPT ![m.to] = RegisterAll(@, window)]
      /\ mig'.from = m.from /\ mig'.to = m.to
      /\ mig' \in [status : Statuses,
                   from : Versions \cup {0}, to : Versions \cup {0},
                   cursor : 0 .. MaxLen, total : 0 .. MaxLen]
      /\ \/ mig'.status = "Completed" /\ version' = m.to
         \/ mig'.status = "Running" /\ version' = version
      /\ UNCHANGED << code, registered, stranded >>
  BY <1>1, BatchStep
<1>3. index \in [Versions -> Index] /\ \A v \in Versions : Covers(index[v])
  BY DEF RecordInv, TypeOK, IndexesCover
<1>4. /\ RegisterAll(index[m.to], window) \in Index
      /\ Covers(RegisterAll(index[m.to], window))
  BY <1>2, <1>3, RegisterAllType, RegisterAllCovers
<1>5. index' \in [Versions -> Index] /\ \A v \in Versions : Covers(index'[v])
  BY <1>2, <1>3, <1>4
<1>6. shape' \in [Keys -> Versions \cup {Absent}]
  BY <1>2, UpDownType DEF RecordInv
<1>7. TypeOK'
  BY <1>2, <1>5, <1>6 DEF RecordInv, TypeOK
<1>8. RecordOK'
  BY <1>2 DEF RecordInv, RecordOK
<1> QED
  BY <1>5, <1>7, <1>8 DEF RecordInv, IndexesCover

(* abort and clear keep RecordInv.                                         *)
LEMMA RecordInvEnd ==
  ASSUME RecordInv, Abort \/ Clear
  PROVE  RecordInv'
BY KeyIndexAssumption
   DEF RecordInv, TypeOK, RecordOK, IndexesCover, Abort, Clear, NoMigration, Statuses

-----------------------------------------------------------------------------
(* The backward actions.                                                   *)
(* rollback::begin keeps RecordInv.                                        *)
LEMMA RecordInvRollbackBegin ==
  ASSUME RecordInv, NEW m \in Migrations, RollbackBegin(m)
  PROVE  RecordInv'
<1>1. /\ m.from \in Versions /\ m.to \in Versions /\ m.to = m.from + 1
      /\ m.from # m.to /\ version = m.to
      /\ index' = [index EXCEPT ![m.from] = Reset(@)]
      /\ mig' = [status |-> "RollingBack", from |-> m.from, to |-> m.to,
                 cursor |-> 0, total |-> index[m.to].len]
      /\ UNCHANGED << version, shape, code, registered, stranded >>
  BY MigrationAssumption, VersionsAreNat DEF RollbackBegin
<1>2. index \in [Versions -> Index] /\ \A v \in Versions : Covers(index[v])
  BY DEF RecordInv, TypeOK, IndexesCover
<1>3. Reset(index[m.from]) \in Index /\ Covers(Reset(index[m.from]))
  BY <1>1, <1>2, ResetCovers
<1>4. index' \in [Versions -> Index] /\ \A v \in Versions : Covers(index'[v])
  BY <1>1, <1>2, <1>3
<1>5. index[m.to].len \in 0 .. MaxLen /\ index'[m.to] = index[m.to]
  BY <1>1, <1>2 DEF Index
<1>6. TypeOK'
  BY <1>1, <1>4, <1>5, KeyIndexAssumption DEF RecordInv, TypeOK, Statuses
<1>7. RecordOK'
  BY <1>1, <1>5, KeyIndexAssumption DEF RecordOK
<1> QED
  BY <1>4, <1>6, <1>7 DEF RecordInv, IndexesCover

(* The facts about a rollback batch that the invariants need.              *)
LEMMA RollbackBatchStep ==
  ASSUME RecordInv, NEW m \in Migrations, NEW limit \in Limits, RollbackBatch(m, limit)
  PROVE  \E end \in 0 .. MaxLen, first \in 0 .. MaxLen, span \in 0 .. MaxLen, window \in Seq(Keys) :
           /\ end <= mig.total /\ first = mig.total - end /\ span = end - mig.cursor
           /\ window = RangeOf(index[m.to], first, span)
           /\ Len(window) = span /\ RangeLen(index[m.to], first, span) = span
           /\ end = Least(mig.cursor + limit, mig.total)
           /\ index[m.to].len = mig.total
           /\ index[m.from].len + Len(window) <= MaxLen
           /\ mig.status = "RollingBack" /\ mig.from = m.from /\ mig.to = m.to
           /\ m.from \in Versions /\ m.to \in Versions /\ m.from # m.to
           /\ m.to = m.from + 1 /\ version = m.to
           /\ shape' = Down(m, KeysOf(window))
           /\ index' = [index EXCEPT ![m.from] = RegisterAll(@, NewestFirst(window))]
           /\ mig' = [status |-> IF end >= mig.total THEN "RolledBack" ELSE "RollingBack",
                      from |-> m.from, to |-> m.to, cursor |-> end, total |-> mig.total]
           /\ version' = IF end >= mig.total THEN m.from ELSE version
           /\ UNCHANGED << code, registered, stranded >>
<1>1. PICK end, first, window :
        /\ end = Least(mig.cursor + limit, mig.total)
        /\ first = mig.total - end
        /\ window = RangeOf(index[m.to], first, end - mig.cursor)
        /\ mig.status = "RollingBack" /\ mig.from = m.from /\ mig.to = m.to
        /\ index[m.to].len <= mig.total
        /\ RangeReadable(index[m.to], first, end - mig.cursor)
        /\ index[m.from].len + Len(window) <= MaxLen
        /\ shape' = Down(m, KeysOf(window))
        /\ index' = [index EXCEPT ![m.from] = RegisterAll(@, NewestFirst(window))]
        /\ mig' = [mig EXCEPT !.cursor = end,
                             !.status = IF end >= mig.total THEN "RolledBack" ELSE @]
        /\ version' = IF end >= mig.total THEN m.from ELSE version
        /\ UNCHANGED << code, registered, stranded >>
  BY DEF RollbackBatch, IsRecordOf, NotOrphaned, IsRolledBack
<1>2. /\ m.from \in Versions /\ m.to \in Versions /\ m.to = m.from + 1
      /\ m.from # m.to /\ version = m.to
      /\ mig.cursor <= mig.total /\ mig.total <= index[m.to].len
  BY <1>1, VersionsAreNat DEF RecordInv, RecordOK
<1>3. /\ mig.cursor \in 0 .. MaxLen /\ mig.total \in 0 .. MaxLen
      /\ index[m.to] \in Index /\ index[m.to].len \in 0 .. MaxLen
  BY <1>2 DEF RecordInv, TypeOK, Index
<1>4. index[m.to].len = mig.total
  BY <1>1, <1>2, <1>3, KeyIndexAssumption
<1>5. PICK span \in 0 .. MaxLen :
        /\ span = end - mig.cursor
        /\ end \in 0 .. MaxLen /\ end <= mig.total /\ first \in 0 .. MaxLen
  <2>1. limit \in Nat
    BY MigrationAssumption
  <2>2. /\ end - mig.cursor \in 0 .. MaxLen
        /\ end \in 0 .. MaxLen /\ end <= mig.total /\ first \in 0 .. MaxLen
    BY <1>1, <1>2, <1>3, <2>1, KeyIndexAssumption DEF Least
  <2> QED
    BY <2>2
<1>6. /\ window \in Seq(Keys) /\ Len(window) = span
      /\ RangeLen(index[m.to], first, span) = span
  <2>1. window = RangeOf(index[m.to], first, span) /\ RangeReadable(index[m.to], first, span)
    BY <1>1, <1>5
  <2>2. /\ first \in Nat /\ span \in Nat
        /\ first + span <= index[m.to].len
    BY <1>1, <1>3, <1>4, <1>5, KeyIndexAssumption
  <2>3. RangeLen(index[m.to], first, span) = span
    BY <1>3, <2>2, KeyIndexAssumption DEF RangeLen, Least
  <2> QED
    BY <1>3, <2>1, <2>2, <2>3, RangeType
<1>7. mig' = [status |-> IF end >= mig.total THEN "RolledBack" ELSE "RollingBack",
              from |-> m.from, to |-> m.to, cursor |-> end, total |-> mig.total]
  <2>1. mig \in [status : Statuses, from : Versions \cup {0}, to : Versions \cup {0},
                cursor : 0 .. MaxLen, total : 0 .. MaxLen]
    BY DEF RecordInv, TypeOK
  <2> QED
    BY <1>1, <2>1
<1>8. window = RangeOf(index[m.to], first, span)
  BY <1>1, <1>5
<1>9. end \in 0 .. MaxLen /\ first \in 0 .. MaxLen /\ window \in Seq(Keys)
  BY <1>5, <1>6
<1> USE <1>9
<1> WITNESS end \in 0 .. MaxLen, first \in 0 .. MaxLen, span \in 0 .. MaxLen,
            window \in Seq(Keys)
<1> QED
  BY <1>1, <1>2, <1>4, <1>5, <1>6, <1>7, <1>8

(* A rollback batch keeps RecordInv.                                       *)
LEMMA RecordInvRollbackBatch ==
  ASSUME RecordInv, NEW m \in Migrations, NEW limit \in Limits, RollbackBatch(m, limit)
  PROVE  RecordInv'
<1>1. PICK end \in 0 .. MaxLen, window \in Seq(Keys) :
        /\ end <= mig.total
        /\ index[m.to].len = mig.total
        /\ index[m.from].len + Len(window) <= MaxLen
        /\ m.from \in Versions /\ m.to \in Versions /\ m.from # m.to
        /\ m.to = m.from + 1 /\ version = m.to
        /\ shape' = Down(m, KeysOf(window))
        /\ index' = [index EXCEPT ![m.from] = RegisterAll(@, NewestFirst(window))]
        /\ mig' = [status |-> IF end >= mig.total THEN "RolledBack" ELSE "RollingBack",
                   from |-> m.from, to |-> m.to, cursor |-> end, total |-> mig.total]
        /\ version' = IF end >= mig.total THEN m.from ELSE version
        /\ UNCHANGED << code, registered, stranded >>
  BY RollbackBatchStep
<1>2. index \in [Versions -> Index] /\ \A v \in Versions : Covers(index[v])
  BY DEF RecordInv, TypeOK, IndexesCover
<1>3. NewestFirst(window) \in Seq(Keys) /\ Len(NewestFirst(window)) = Len(window)
  BY NewestFirstType
<1>4. index[m.from].len + Len(NewestFirst(window)) <= MaxLen
  BY <1>1, <1>3
<1>5. /\ RegisterAll(index[m.from], NewestFirst(window)) \in Index
      /\ Covers(RegisterAll(index[m.from], NewestFirst(window)))
  BY <1>1, <1>2, <1>3, <1>4, RegisterAllType, RegisterAllCovers
<1>6. index' \in [Versions -> Index] /\ \A v \in Versions : Covers(index'[v])
  BY <1>1, <1>2, <1>5
<1>7. index'[m.to] = index[m.to]
  BY <1>1, <1>2
<1>8. shape' \in [Keys -> Versions \cup {Absent}]
  BY <1>1, UpDownType DEF RecordInv
<1>9. mig.total \in 0 .. MaxLen
  BY DEF RecordInv, TypeOK
<1>10. TypeOK'
  BY <1>1, <1>6, <1>8, <1>9 DEF RecordInv, TypeOK, Statuses
<1>11. RecordOK'
  BY <1>1, <1>7, <1>9, KeyIndexAssumption DEF RecordOK
<1> QED
  BY <1>6, <1>10, <1>11 DEF RecordInv, IndexesCover

-----------------------------------------------------------------------------
(* Every step of the specification, named once.                            *)
LEMMA StepCases ==
  ASSUME RecordInv, [Next]_vars
  PROVE  \/ Declare
         \/ \E k \in Keys : PutUnindexed(k) /\ k \notin registered
         \/ \E k \in Keys : Remove(k)
         \/ \E v \in Versions : Deploy(v)
         \/ UNCHANGED vars
         \/ \E k \in Keys : Put(k)
         \/ \E k \in Keys : RegisterKey(version, k) /\ version \in Versions
         \/ \E m \in Migrations : Begin(m)
         \/ \E m \in Migrations, limit \in Limits : Batch(m, limit)
         \/ Abort \/ Clear
         \/ \E m \in Migrations : RollbackBegin(m)
         \/ \E m \in Migrations, limit \in Limits : RollbackBatch(m, limit)
<1>1. CASE Application
  <2>1. version # NoVersion => version \in Versions
    BY DEF RecordInv, TypeOK
  <2> QED
    BY <1>1, <2>1 DEF Application
<1>2. CASE Upgrade
  <2>1. code + 1 \in Versions
    BY <1>2, MigrationAssumption DEF Upgrade, RecordInv, TypeOK, Versions
  <2> QED
    BY <1>2, <2>1 DEF Upgrade
<1>3. CASE Downgrade
  <2>1. mig.from \in Versions
    BY <1>3 DEF Downgrade, RecordInv, RecordOK
  <2> QED
    BY <1>3, <2>1 DEF Downgrade
<1>4. CASE Forward
  BY <1>4 DEF Forward
<1>5. CASE Backward
  BY <1>5 DEF Backward
<1> QED
  BY <1>1, <1>2, <1>3, <1>4, <1>5 DEF Next, ForwardNext

(* A write through the store keeps RecordInv.                              *)
LEMMA RecordInvPut ==
  ASSUME RecordInv, NEW k \in Keys, Put(k)
  PROVE  RecordInv'
<1>1. CurrentVersion \in Versions
  BY CurrentVersionType
<1>2. shape' \in [Keys -> Versions \cup {Absent}]
  BY DEF Put, RecordInv, TypeOK
<1> QED
  BY <1>1, <1>2, RecordInvRegister DEF Put

(* A direct registration keeps RecordInv.                                  *)
LEMMA RecordInvRegisterKey ==
  ASSUME RecordInv, NEW k \in Keys, version \in Versions, RegisterKey(version, k)
  PROVE  RecordInv'
<1>1. shape' \in [Keys -> Versions \cup {Absent}]
  BY DEF RegisterKey, RecordInv, TypeOK
<1> QED
  BY <1>1, RecordInvRegister DEF RegisterKey

(* Every step keeps RecordInv.                                             *)
LEMMA RecordInvStep ==
  ASSUME RecordInv, [Next]_vars
  PROVE  RecordInv'
BY StepCases, RecordInvOtherSteps, RecordInvPut, RecordInvRegisterKey,
   RecordInvBegin, RecordInvBatch, RecordInvEnd,
   RecordInvRollbackBegin, RecordInvRollbackBatch

(* RecordInv is an invariant of the specification.                         *)
LEMMA RecordInvHolds == Spec => []RecordInv
<1>1. RecordInv /\ [Next]_vars => RecordInv'
  BY RecordInvStep
<1> QED
  BY <1>1, RecordInvInit, PTL DEF Spec

(* The recorded version, the migration record, the indexes and the entries *)
(* always have the shape the code gives them: in particular the cursor and *)
(* the total stay within the ceiling of an index, and the windows of both  *)
(* walks are windows of keys.                                              *)
THEOREM MigrationTypeCorrect == Spec => []TypeOK
<1>1. RecordInv => TypeOK
  BY DEF RecordInv
<1> QED
  BY <1>1, RecordInvHolds, PTL

(* index.rs:117-120, for the indexes of a migrating contract: whatever     *)
(* resets rollbacks did, no window an executor or a rollback batch may ask *)
(* for is corrupt.                                                         *)
THEOREM BatchesReadTheirWindow ==
  Spec => [](\A v \in Versions : \A start \in Nat, limit \in Nat :
               RangeReadable(index[v], start, limit))
<1>1. RecordInv => \A v \in Versions : \A start \in Nat, limit \in Nat :
                     RangeReadable(index[v], start, limit)
  BY CoversReadable DEF RecordInv, TypeOK, IndexesCover
<1> QED
  BY <1>1, RecordInvHolds, PTL

(* VersionMovesWithTheLastKey, of one forward batch.                       *)
LEMMA BatchMovesVersion ==
  ASSUME RecordInv, NEW m \in Migrations, NEW limit \in Limits, Batch(m, limit),
         version' # version
  PROVE  /\ mig.status = "Running" /\ mig'.status = "Completed"
         /\ version' = version + 1
         /\ mig'.cursor >= index'[version].len
<1>1. /\ version = m.from
      /\ m.from \in Versions /\ m.to \in Versions /\ m.to = m.from + 1
      /\ mig.status = "Running" /\ mig'.status = "Completed" /\ version' = m.to
      /\ index' = [index EXCEPT ![m.to] =
                     RegisterAll(@, RangeOf(index[m.from], mig.cursor, limit))]
      /\ mig'.total = Greatest(mig.total, index[m.from].len)
      /\ mig'.cursor >= mig'.total /\ mig'.cursor \in 0 .. MaxLen
  BY BatchStep
<1>2. index[m.from].len \in 0 .. MaxLen /\ mig.total \in 0 .. MaxLen
  BY <1>1 DEF RecordInv, TypeOK, Index
<1>3. index'[m.from] = index[m.from]
  <2>1. m.from # m.to
    BY <1>1, VersionsAreNat
  <2> QED
    BY <1>1, <2>1 DEF RecordInv, TypeOK
<1>4. mig'.cursor >= index[m.from].len
  BY <1>1, <1>2, KeyIndexAssumption DEF Greatest
<1> QED
  BY <1>1, <1>3, <1>4

(* VersionMovesWithTheLastKey, of one rollback batch.                      *)
LEMMA RollbackBatchMovesVersion ==
  ASSUME RecordInv, NEW m \in Migrations, NEW limit \in Limits, RollbackBatch(m, limit),
         version' # version
  PROVE  /\ mig.status = "RollingBack" /\ mig'.status = "RolledBack"
         /\ version' = version - 1
         /\ mig'.cursor >= index'[version].len
<1>1. PICK end \in 0 .. MaxLen, window \in Seq(Keys) :
        /\ index[m.to].len = mig.total
        /\ mig.status = "RollingBack"
        /\ m.from \in Versions /\ m.to \in Versions /\ m.from # m.to
        /\ m.to = m.from + 1 /\ version = m.to
        /\ index' = [index EXCEPT ![m.from] = RegisterAll(@, NewestFirst(window))]
        /\ mig' = [status |-> IF end >= mig.total THEN "RolledBack" ELSE "RollingBack",
                   from |-> m.from, to |-> m.to, cursor |-> end, total |-> mig.total]
        /\ version' = IF end >= mig.total THEN m.from ELSE version
  BY RollbackBatchStep
<1>2. end >= mig.total /\ version' = m.from
  BY <1>1
<1>3. index'[m.to] = index[m.to]
  BY <1>1 DEF RecordInv, TypeOK
<1>4. m.from = m.to - 1
  <2>1. \A a \in Nat : \A b : b = a + 1 => a = b - 1
    OBVIOUS
  <2>2. m.from \in Nat
    BY <1>1, VersionsAreNat
  <2> QED
    BY <1>1, <2>1, <2>2
<1> QED
  BY <1>1, <1>2, <1>3, <1>4

(* executor.rs:243-246, rollback.rs:171-177: once declared, the version    *)
(* moves only by one, only in the transaction of the batch that visits the *)
(* last key of the index being walked, in the direction of the walk.       *)
THEOREM VersionMoves == Spec => VersionMovesWithTheLastKey
<1> DEFINE Moves ==
      version \notin {NoVersion, version'} =>
        \/ /\ mig.status = "Running" /\ mig'.status = "Completed"
           /\ version' = version + 1
           /\ mig'.cursor >= index'[version].len
        \/ /\ mig.status = "RollingBack" /\ mig'.status = "RolledBack"
           /\ version' = version - 1
           /\ mig'.cursor >= index'[version].len
<1>1. ASSUME RecordInv, [Next]_vars
      PROVE  [Moves]_vars
  <2> SUFFICES ASSUME version # NoVersion, version' # version
               PROVE  \/ \E m \in Migrations, limit \in Limits : Batch(m, limit)
                      \/ \E m \in Migrations, limit \in Limits : RollbackBatch(m, limit)
    BY <1>1, BatchMovesVersion, RollbackBatchMovesVersion
  <2>1. ~Declare
    BY DEF Declare, Initialize, Adopt
  <2>2. \A k \in Keys : /\ ~PutUnindexed(k) /\ ~Remove(k)
                        /\ ~Put(k) /\ ~RegisterKey(version, k)
    BY DEF PutUnindexed, Remove, Put, RegisterKey
  <2>3. \A v \in Versions : ~Deploy(v)
    BY DEF Deploy
  <2>4. \A m \in Migrations : ~Begin(m) /\ ~RollbackBegin(m)
    BY DEF Begin, RollbackBegin
  <2>5. ~Abort /\ ~Clear /\ ~UNCHANGED vars
    BY DEF Abort, Clear, vars
  <2> QED
    BY <1>1, StepCases, <2>1, <2>2, <2>3, <2>4, <2>5
<1>2. RecordInv /\ [Next]_vars => [Moves]_vars
  BY <1>1
<1> QED
  BY <1>2, RecordInvHolds, PTL DEF Spec, VersionMovesWithTheLastKey

-----------------------------------------------------------------------------
(***************************************************************************)
(* A rollback that reports success.  RecordInv does not speak of entries:  *)
(* what is added is that the keys a rollback has visited are not of the    *)
(* new shape any more, unless a registration has doomed it, and that a     *)
(* write behind the index's back cannot reach them, because every key a    *)
(* page holds, the leftovers of resets included, has been registered.      *)
(***************************************************************************)
PagesHoldRegistered == \A v \in Versions : Stored(index[v]) \subseteq registered

VisitedAreReverted ==
  mig.status = "RollingBack" /\ index[mig.to].len = mig.total =>
    \A k \in KeysFrom(index[mig.to], mig.total - mig.cursor) \cap Managed :
      shape[k] # mig.to

RollbackInv == RecordInv /\ PagesHoldRegistered /\ VisitedAreReverted

(* A contract nobody has called.                                           *)
LEMMA RollbackInvInit == Init => RollbackInv
<1> SUFFICES ASSUME Init PROVE RollbackInv
  OBVIOUS
<1>1. Stored(EmptyIndex) = {}
  BY DEF Stored, EmptyIndex, KeysOf
<1> QED
  BY <1>1, RecordInvInit
     DEF Init, NoMigration, RollbackInv, PagesHoldRegistered, VisitedAreReverted

(* Steps that leave the indexes and what is registered alone, and keep the *)
(* shape of every registered entry or remove it.                           *)
LEMMA RollbackInvEntrySteps ==
  ASSUME RollbackInv, RecordInv', UNCHANGED << index, registered >>,
         mig' = mig \/ mig'.status \in {"None", "Running"},
         \A k \in registered : shape'[k] = shape[k] \/ shape'[k] = Absent
  PROVE  RollbackInv'
<1>1. PagesHoldRegistered'
  BY DEF RollbackInv, PagesHoldRegistered
<1>2. VisitedAreReverted'
  <2> SUFFICES ASSUME mig' = mig, mig.status = "RollingBack", index[mig.to].len = mig.total,
                      NEW k \in KeysFrom(index[mig.to], mig.total - mig.cursor) \cap Managed
               PROVE  shape'[k] # mig.to
    BY DEF VisitedAreReverted
  <2>1. /\ mig.to \in Versions /\ mig.cursor <= mig.total
        /\ mig.total \in Nat /\ mig.cursor \in Nat
    BY KeyIndexAssumption DEF RollbackInv, RecordInv, RecordOK, TypeOK
  <2>2. index[mig.to] \in Index /\ Covers(index[mig.to])
    BY <2>1 DEF RollbackInv, RecordInv, TypeOK, IndexesCover
  <2>3. mig.total - mig.cursor \in Nat
    BY <2>1
  <2>4. k \in registered
    BY <2>1, <2>2, <2>3, CursorEnds, IndexedIsStored DEF RollbackInv, PagesHoldRegistered
  <2>5. mig.to # Absent
    BY <2>1, VersionsAreNat DEF Absent
  <2> QED
    BY <2>4, <2>5 DEF RollbackInv, VisitedAreReverted
<1> QED
  BY <1>1, <1>2 DEF RollbackInv

(* A registration during a rollback is one under the version being left,   *)
(* and dooms it.                                                           *)
LEMMA RollbackInvRegister ==
  ASSUME RollbackInv, RecordInv', NEW v \in Versions, NEW k \in Keys,
         index[v].len < MaxLen,
         index' = [index EXCEPT ![v] = Register(@, k)],
         registered' = registered \cup {k},
         mig' = mig,
         mig.status = "RollingBack" => v = mig.to
  PROVE  RollbackInv'
<1>1. index[v] \in Index /\ index \in [Versions -> Index] /\ index[v].len \in Nat
  BY KeyIndexAssumption DEF RollbackInv, RecordInv, TypeOK, Index
<1>2. /\ Register(index[v], k).len = index[v].len + 1
      /\ Stored(Register(index[v], k)) \subseteq Stored(index[v]) \cup {k}
  BY <1>1, RegisterCovers, StoredRegister
<1>3. PagesHoldRegistered'
  BY <1>1, <1>2 DEF RollbackInv, PagesHoldRegistered
<1>4. ASSUME mig.status = "RollingBack"
      PROVE  index'[mig.to].len # mig.total
  <2>1. mig.total \in Nat /\ mig.total <= index[v].len
    BY <1>4, KeyIndexAssumption DEF RollbackInv, RecordInv, RecordOK, TypeOK
  <2>2. index'[mig.to].len = index[v].len + 1
    BY <1>1, <1>2, <1>4
  <2> QED
    BY <1>1, <2>1, <2>2
<1> QED
  BY <1>3, <1>4 DEF RollbackInv, VisitedAreReverted

(* A forward batch stores keys of the old index in the new one.            *)
LEMMA RollbackInvBatch ==
  ASSUME RollbackInv, RecordInv', NEW m \in Migrations, NEW limit \in Limits, Batch(m, limit)
  PROVE  RollbackInv'
<1>1. PICK w : w = RangeOf(index[m.from], mig.cursor, limit)
  OBVIOUS
<1>2. /\ m.from \in Versions /\ m.to \in Versions
      /\ w \in Seq(Keys)
      /\ index' = [index EXCEPT ![m.to] = RegisterAll(@, w)]
      /\ mig'.status \in {"Running", "Completed"}
      /\ registered' = registered
  BY <1>1, BatchStep DEF RollbackInv
<1>3. /\ index \in [Versions -> Index] /\ Covers(index[m.from])
      /\ mig.cursor \in Nat /\ limit \in Nat
  BY <1>2, KeyIndexAssumption, MigrationAssumption
     DEF RollbackInv, RecordInv, TypeOK, IndexesCover
<1>4. KeysOf(w) \subseteq Stored(index[m.from])
  BY <1>1, <1>2, <1>3, CoversReadable, WindowIndexed, CursorEnds, IndexedIsStored
<1>5. Stored(RegisterAll(index[m.to], w)) \subseteq Stored(index[m.to]) \cup KeysOf(w)
  BY <1>2, <1>3, StoredRegisterAll
<1>6. PagesHoldRegistered'
  BY <1>2, <1>3, <1>4, <1>5 DEF RollbackInv, PagesHoldRegistered
<1> QED
  BY <1>2, <1>6 DEF RollbackInv, VisitedAreReverted

(* A rollback starts with nothing visited.                                 *)
LEMMA RollbackInvBegin ==
  ASSUME RollbackInv, RecordInv', NEW m \in Migrations, RollbackBegin(m)
  PROVE  RollbackInv'
<1>1. /\ m.from \in Versions /\ m.to \in Versions
      /\ index' = [index EXCEPT ![m.from] = Reset(@)]
      /\ mig' = [status |-> "RollingBack", from |-> m.from, to |-> m.to,
                 cursor |-> 0, total |-> index[m.to].len]
      /\ registered' = registered
  BY MigrationAssumption DEF RollbackBegin
<1>2. index \in [Versions -> Index]
  BY DEF RollbackInv, RecordInv, TypeOK
<1>3. Stored(Reset(index[m.from])) = Stored(index[m.from])
  BY <1>1, <1>2, StoredReset
<1>4. PagesHoldRegistered'
  BY <1>1, <1>2, <1>3 DEF RollbackInv, PagesHoldRegistered
<1>5. VisitedAreReverted'
  <2>1. index'[m.to] \in Index /\ index'[m.to].len \in Nat
    BY <1>1, KeyIndexAssumption DEF RecordInv, TypeOK, Index
  <2>2. index[m.to].len \in Nat
    BY <1>1, <1>2, KeyIndexAssumption DEF Index
  <2>3. index'[m.to].len = index[m.to].len =>
          KeysFrom(index'[m.to], index[m.to].len - 0) = {}
    BY <2>1, <2>2, CursorEnds
  <2> QED
    BY <1>1, <2>3 DEF VisitedAreReverted
<1> QED
  BY <1>4, <1>5 DEF RollbackInv

(* A rollback batch reverts its window, which joins the visited ones; down *)
(* writes the new shape to no entry.                                       *)
LEMMA RollbackInvRollbackBatch ==
  ASSUME RollbackInv, RecordInv', NEW m \in Migrations, NEW limit \in Limits,
         RollbackBatch(m, limit)
  PROVE  /\ RollbackInv'
         /\ mig'.status = "RolledBack" =>
              \A k \in Indexed(index'[m.to]) \cap Managed : shape'[k] # m.to
<1>1. PICK end \in 0 .. MaxLen, first \in 0 .. MaxLen, span \in 0 .. MaxLen,
           w \in Seq(Keys) :
        /\ end <= mig.total /\ first = mig.total - end /\ span = end - mig.cursor
        /\ w = RangeOf(index[m.to], first, span) /\ Len(w) = span
        /\ index[m.to].len = mig.total
        /\ index[m.from].len + Len(w) <= MaxLen
        /\ mig.status = "RollingBack" /\ mig.from = m.from /\ mig.to = m.to
        /\ m.from \in Versions /\ m.to \in Versions /\ m.from # m.to
        /\ shape' = Down(m, KeysOf(w))
        /\ index' = [index EXCEPT ![m.from] = RegisterAll(@, NewestFirst(w))]
        /\ mig' = [status |-> IF end >= mig.total THEN "RolledBack" ELSE "RollingBack",
                   from |-> m.from, to |-> m.to, cursor |-> end, total |-> mig.total]
        /\ UNCHANGED << code, registered, stranded >>
  BY RollbackBatchStep DEF RollbackInv
<1>2. /\ index \in [Versions -> Index] /\ Covers(index[m.to])
      /\ mig.total \in Nat /\ mig.cursor \in Nat
      /\ first \in Nat /\ span \in Nat /\ end \in Nat
      /\ shape \in [Keys -> Versions \cup {Absent}]
  BY <1>1, KeyIndexAssumption DEF RollbackInv, RecordInv, TypeOK, IndexesCover
<1>3. /\ index'[m.to] = index[m.to]
      /\ index'[m.from] = RegisterAll(index[m.from], NewestFirst(w))
      /\ \A v \in Versions : v # m.from => index'[v] = index[v]
  BY <1>1, <1>2
<1>4. /\ KeysFrom(index[m.to], first) = KeysOf(w) \cup KeysFrom(index[m.to], first + span)
      /\ KeysOf(w) \subseteq Stored(index[m.to])
  <2>1. RangeReadable(index[m.to], first, span)
    BY <1>1, <1>2, CoversReadable
  <2>2. KeysFrom(index[m.to], first) = KeysOf(w) \cup KeysFrom(index[m.to], first + span)
    <3>1. index[m.to] \in Index
      BY <1>1, <1>2
    <3>2. KeysFrom(index[m.to], first) = KeysOf(w) \cup KeysFrom(index[m.to], first + Len(w))
      BY <1>1, <1>2, <2>1, <3>1, WindowMovesCursor
    <3> QED
      BY <1>1, <3>2
  <2> QED
    BY <1>1, <1>2, <2>2, CursorEnds, IndexedIsStored
<1>5. PagesHoldRegistered'
  <2>1. /\ NewestFirst(w) \in Seq(Keys) /\ KeysOf(NewestFirst(w)) = KeysOf(w)
    BY NewestFirstType
  <2>2. Stored(RegisterAll(index[m.from], NewestFirst(w)))
          \subseteq Stored(index[m.from]) \cup KeysOf(w)
    BY <1>1, <1>2, <2>1, StoredRegisterAll
  <2> QED
    BY <1>1, <1>3, <1>4, <2>2 DEF RollbackInv, PagesHoldRegistered
<1>6. \A k \in KeysFrom(index[m.to], first) \cap Managed : shape'[k] # m.to
  <2> TAKE k \in KeysFrom(index[m.to], first) \cap Managed
  <2>1. shape'[k] = IF k \in KeysOf(w) /\ shape[k] = m.to THEN m.from ELSE shape[k]
    BY <1>1, MigrationAssumption DEF Down
  <2>2. CASE k \in KeysOf(w)
    BY <1>1, <2>1, <2>2
  <2>3. CASE k \notin KeysOf(w)
    <3>1. first + span = mig.total - mig.cursor
      <4>1. first = mig.total - end /\ span = end - mig.cursor
        BY <1>1
      <4>2. mig.total \in Nat /\ mig.cursor \in Nat /\ end \in Nat
        BY <1>2
      <4> QED
        BY <4>1, <4>2
    <3>2. shape[k] # m.to
      BY <1>1, <1>4, <2>3, <3>1 DEF RollbackInv, VisitedAreReverted
    <3> QED
      BY <2>1, <2>3, <3>2
  <2> QED
    BY <2>2, <2>3
<1>7. VisitedAreReverted'
  BY <1>1, <1>3, <1>6 DEF VisitedAreReverted
<1>8. ASSUME mig'.status = "RolledBack"
      PROVE  \A k \in Indexed(index'[m.to]) \cap Managed : shape'[k] # m.to
  <2>1. end >= mig.total
    BY <1>1, <1>8
  <2>2. first = 0
    BY <1>1, <1>2, <2>1
  <2>3. KeysFrom(index[m.to], 0) = Indexed(index[m.to])
    BY <1>1, <1>2, CursorEnds
  <2> QED
    BY <1>3, <1>6, <2>2, <2>3
<1> QED
  BY <1>5, <1>7, <1>8 DEF RollbackInv

(* Every step keeps RollbackInv.                                           *)
LEMMA RollbackInvStep ==
  ASSUME RollbackInv, [Next]_vars
  PROVE  RollbackInv'
<1> RecordInv /\ RecordInv'
  BY RecordInvStep DEF RollbackInv
<1>1. CASE Declare \/ UNCHANGED vars \/ Abort \/ Clear \/ \E v \in Versions : Deploy(v)
  <2>1. /\ UNCHANGED << index, registered, shape >>
        /\ mig' = mig \/ mig'.status = "None"
    BY <1>1 DEF Declare, Initialize, Adopt, vars, Abort, Clear, NoMigration, Deploy
  <2> QED
    BY <2>1, RollbackInvEntrySteps
<1>2. ASSUME NEW m \in Migrations, Begin(m) PROVE RollbackInv'
  <2>1. UNCHANGED << index, registered, shape >> /\ mig'.status = "Running"
    BY <1>2 DEF Begin
  <2> QED
    BY <2>1, RollbackInvEntrySteps
<1>3. ASSUME NEW k \in Keys, (PutUnindexed(k) /\ k \notin registered) \/ Remove(k)
      PROVE  RollbackInv'
  <2>1. UNCHANGED << index, registered, mig >>
    BY <1>3 DEF PutUnindexed, Remove
  <2>2. \A j \in registered : shape'[j] = shape[j] \/ shape'[j] = Absent
    BY <1>3 DEF PutUnindexed, Remove, RecordInv, TypeOK
  <2> QED
    BY <2>1, <2>2, RollbackInvEntrySteps
<1>4. ASSUME NEW k \in Keys, Put(k) PROVE RollbackInv'
  <2>1. mig.status = "RollingBack" => CurrentVersion = mig.to
    BY VersionsAreNat DEF RecordInv, RecordOK, CurrentVersion, NoVersion
  <2> QED
    BY <1>4, <2>1, CurrentVersionType, RollbackInvRegister DEF Put
<1>5. ASSUME NEW k \in Keys, RegisterKey(version, k) /\ version \in Versions
      PROVE  RollbackInv'
  <2>1. mig.status = "RollingBack" => version = mig.to
    BY DEF RecordInv, RecordOK
  <2> QED
    BY <1>5, <2>1, RollbackInvRegister DEF RegisterKey
<1> QED
  BY <1>1, <1>2, <1>3, <1>4, <1>5, StepCases, RollbackInvBatch, RollbackInvBegin,
     RollbackInvRollbackBatch

(* rollback.rs:9-17 and 106-113: a rollback that reports success leaves no *)
(* managed entry of the new index in the new shape: keys written meanwhile *)
(* make it fail instead.  It holds across any number of rollbacks, whose   *)
(* resets leave old keys on the pages.                                     *)
THEOREM RollbackReverts == Spec => RollbackRevertsEverything
<1> DEFINE Reverts ==
      mig.status = "RollingBack" /\ mig'.status = "RolledBack" =>
        \A k \in Indexed(index'[mig.to]) \cap Managed : shape'[k] # mig.to
<1>1. ASSUME RollbackInv, [Next]_vars
      PROVE  Reverts
  <2> SUFFICES ASSUME mig.status = "RollingBack", mig'.status = "RolledBack"
               PROVE  \A k \in Indexed(index'[mig.to]) \cap Managed : shape'[k] # mig.to
    OBVIOUS
  <2>1. RecordInv /\ RecordInv'
    BY <1>1, RecordInvStep DEF RollbackInv
  <2>2. mig' # mig
    OBVIOUS
  <2>3. PICK m \in Migrations, limit \in Limits : RollbackBatch(m, limit)
    <3>1. ~Declare /\ ~UNCHANGED vars /\ ~Abort /\ ~Clear
      BY DEF Declare, Initialize, Adopt, vars, Abort, Clear, NoMigration
    <3>2. \A v \in Versions : ~Deploy(v)
      BY DEF Deploy
    <3>3. \A k \in Keys : /\ ~PutUnindexed(k) /\ ~Remove(k) /\ ~Put(k)
                          /\ ~RegisterKey(version, k)
      BY DEF PutUnindexed, Remove, Put, RegisterKey
    <3>4. \A m \in Migrations : ~Begin(m) /\ ~RollbackBegin(m)
      BY DEF Begin, RollbackBegin
    <3>5. \A m \in Migrations, limit \in Limits : ~Batch(m, limit)
      BY DEF Batch
    <3> QED
      BY <1>1, <2>1, StepCases, <3>1, <3>2, <3>3, <3>4, <3>5
  <2>4. mig.to = m.to
    BY <2>3 DEF RollbackBatch, IsRecordOf
  <2> QED
    BY <1>1, <2>1, <2>3, <2>4, RollbackInvRollbackBatch
<1>2. RollbackInv /\ [Next]_vars => RollbackInv'
  BY RollbackInvStep
<1>3. RollbackInv /\ [Next]_vars => [Reverts]_vars
  BY <1>1
<1> QED
  BY <1>2, <1>3, RollbackInvInit, PTL DEF Spec, RollbackRevertsEverything

-----------------------------------------------------------------------------
(* The lengths Lifecycle sees.                                             *)
Lens == [v \in Versions |-> index[v].len]

(* Replacing one index replaces one length.                                *)
LEMMA LensOfOne ==
  ASSUME RecordInv, NEW v \in Versions, NEW new, index' = [index EXCEPT ![v] = new]
  PROVE  Lens' = [Lens EXCEPT ![v] = new.len]
BY DEF RecordInv, TypeOK, Lens

(* A window is as long as Lifecycle says.                                  *)
LEMMA WindowOfLength ==
  ASSUME NEW v \in Versions, NEW start, NEW limit
  PROVE  RangeLen(index[v], start, limit) = Life!WindowLen(Lens[v], start, limit)
BY DEF RangeLen, Life!WindowLen, Least, Life!Least, Lens

(* A registration, by put or directly, is one of Lifecycle's.              *)
LEMMA RegisterRefines ==
  ASSUME RecordInv, NEW v \in {CurrentVersion, version}, v \in Versions, NEW k \in Keys,
         index[v].len < MaxLen,
         index' = [index EXCEPT ![v] = Register(@, k)],
         UNCHANGED << version, mig >>
  PROVE  Life!Register
<1>1. v \in {Life!Written, Life!Recorded}
  BY VersionsAreNat
     DEF CurrentVersion, Life!Written, Life!Recorded, NoVersion, Life!NoVersion,
         INITIAL_VERSION, Life!INITIAL_VERSION
<1>2. Lens' = [Lens EXCEPT ![v] = Lens[v] + 1]
  <2> DEFINE new == Register(index[v], k)
  <2>1. index' = [index EXCEPT ![v] = new]
    BY DEF RecordInv, TypeOK
  <2>2. new.len = Lens[v] + 1
    BY DEF Register, Lens
  <2> HIDE DEF new
  <2>3. Lens' = [Lens EXCEPT ![v] = new.len]
    BY <2>1, LensOfOne
  <2> QED
    BY <2>2, <2>3
<1>3. Lens[v] < MaxLen
  BY DEF Lens
<1> QED
  BY <1>1, <1>2, <1>3 DEF Life!Register, Lens

(* A forward batch is one of Lifecycle's.                                  *)
LEMMA BatchRefines ==
  ASSUME RecordInv, NEW m \in Migrations, NEW limit \in Limits, Batch(m, limit)
  PROVE  Life!Batch(m, limit)
<1> DEFINE window == RangeOf(index[m.from], mig.cursor, limit)
           n      == Life!WindowLen(Lens[m.from], mig.cursor, limit)
<1>1. /\ m.from \in Versions /\ m.to \in Versions
      /\ window \in Seq(Keys)
      /\ Len(window) = RangeLen(index[m.from], mig.cursor, limit)
      /\ index[m.to].len + Len(window) <= MaxLen
      /\ index' = [index EXCEPT ![m.to] = RegisterAll(@, window)]
  BY BatchStep
<1>2. Len(window) = n
  BY <1>1, WindowOfLength
<1>3. Lens' = [Lens EXCEPT ![m.to] = Lens[m.to] + n] /\ Lens[m.to] + n <= MaxLen
  <2> DEFINE new == RegisterAll(index[m.to], window)
  <2>1. index' = [index EXCEPT ![m.to] = new]
    BY <1>1 DEF RecordInv, TypeOK
  <2>2. new.len = Lens[m.to] + n
    BY <1>1, <1>2 DEF RegisterAll, Lens
  <2>3. Lens[m.to] + n <= MaxLen
    BY <1>1, <1>2 DEF Lens
  <2> HIDE DEF new, n
  <2>4. Lens' = [Lens EXCEPT ![m.to] = new.len]
    BY <1>1, <2>1, LensOfOne
  <2> QED
    BY <2>2, <2>3, <2>4
<1>4. Life!CanBatch(m, limit)
  BY DEF Batch, IsRecordOf, Life!CanBatch, Life!IsRecordOf
<1>5. Greatest(mig.total, index[m.from].len) = Life!Greatest(mig.total, Lens[m.from])
  BY <1>1 DEF Greatest, Life!Greatest, Lens
<1> DEFINE total == Life!Greatest(mig.total, Lens[m.from])
<1>6. /\ mig' = [mig EXCEPT !.cursor = mig.cursor + n, !.total = total,
                            !.status = IF mig.cursor + n >= total THEN "Completed" ELSE @]
      /\ version' = IF mig.cursor + n >= total THEN m.to ELSE version
  BY <1>2, <1>5 DEF Batch, CursorAfter, AbsorbedTotal, IsDone
<1> QED
  BY <1>3, <1>4, <1>6 DEF Life!Batch, Life!Done, Lens

(* A rollback batch is one of Lifecycle's.                                 *)
LEMMA RollbackBatchRefines ==
  ASSUME RecordInv, NEW m \in Migrations, NEW limit \in Limits, RollbackBatch(m, limit)
  PROVE  Life!RollbackBatch(m, limit)
<1>1. PICK end \in 0 .. MaxLen, first \in 0 .. MaxLen, span \in 0 .. MaxLen,
           window \in Seq(Keys) :
        /\ first = mig.total - end /\ span = end - mig.cursor
        /\ Len(window) = span /\ RangeLen(index[m.to], first, span) = span
        /\ end = Least(mig.cursor + limit, mig.total)
        /\ index[m.to].len = mig.total
        /\ index[m.from].len + Len(window) <= MaxLen
        /\ m.from \in Versions /\ m.to \in Versions
        /\ index' = [index EXCEPT ![m.from] = RegisterAll(@, NewestFirst(window))]
        /\ version' = IF end >= mig.total THEN m.from ELSE version
  BY RollbackBatchStep
<1>2. /\ limit \in 1 .. MaxBatch
      /\ mig.status = "RollingBack" /\ mig.from = m.from /\ mig.to = m.to
  BY DEF RollbackBatch, IsRecordOf
<1>3. mig' = [mig EXCEPT !.cursor = end,
                         !.status = IF end >= mig.total THEN "RolledBack" ELSE @]
  BY <1>1 DEF RollbackBatch, IsRolledBack
<1>4. span = Life!WindowLen(Lens[m.to], mig.total - end, end - mig.cursor)
  BY <1>1, WindowOfLength
<1>5. Lens' = [Lens EXCEPT ![m.from] = Lens[m.from] + span]
  <2> DEFINE new == RegisterAll(index[m.from], NewestFirst(window))
  <2>1. index' = [index EXCEPT ![m.from] = new]
    BY <1>1 DEF RecordInv, TypeOK
  <2>2. new.len = Lens[m.from] + span
    BY <1>1, NewestFirstType DEF RegisterAll, Lens
  <2> HIDE DEF new
  <2> QED
    BY <1>1, <2>1, <2>2, LensOfOne
<1>6. Lens[m.to] <= mig.total /\ Lens[m.from] + span <= MaxLen
  <2>1. mig.total \in Nat
    BY KeyIndexAssumption DEF RecordInv, TypeOK
  <2> QED
    BY <1>1, <2>1 DEF Lens
<1>7. end = Life!Least(mig.cursor + limit, mig.total)
  BY <1>1 DEF Least, Life!Least
<1> QED
  BY <1>1, <1>2, <1>3, <1>4, <1>5, <1>6, <1>7
     DEF Life!RollbackBatch, Life!IsRecordOf, Life!Done, Lens

(* The other steps that Lifecycle sees.                                    *)
LEMMA OtherStepsRefine ==
  ASSUME RecordInv, [Next]_vars,
         \/ Declare \/ Abort \/ Clear
         \/ \E m \in Migrations : Begin(m) \/ RollbackBegin(m)
  PROVE  Life!LifeNext
<1>1. CASE Declare
  <2>1. version' \in Life!Versions
    BY <1>1 DEF Declare, Initialize, Adopt, RecordInv, TypeOK, Versions, Life!Versions
  <2> QED
    BY <1>1, <2>1 DEF Declare, Initialize, Adopt, Life!Declare, Life!LifeNext,
                      NoVersion, Life!NoVersion
<1>2. CASE Abort \/ Clear
  BY <1>2 DEF Abort, Clear, IsActive, NoMigration, Life!Abort, Life!Clear,
              Life!IsActive, Life!NoMigration, Life!LifeNext
<1>3. ASSUME NEW m \in Migrations, Begin(m)
      PROVE  Life!LifeNext
  <2>1. m.from \in Versions
    BY MigrationAssumption
  <2>2. index[m.from].len = Lens[m.from] /\ Lens' = Lens
    BY <1>3, <2>1 DEF Begin, Lens
  <2> QED
    BY <1>3, <2>2 DEF Begin, IsRecordOf, IsActive, Life!Begin, Life!CanBegin,
       Life!IsRecordOf, Life!IsActive, Life!LifeNext, Lens
<1>4. ASSUME NEW m \in Migrations, RollbackBegin(m)
      PROVE  Life!LifeNext
  <2>1. m.from \in Versions /\ m.to \in Versions
    BY MigrationAssumption
  <2>2. index[m.to].len = Lens[m.to] /\ Lens' = [Lens EXCEPT ![m.from] = 0]
    <3> DEFINE new == Reset(index[m.from])
    <3>1. index' = [index EXCEPT ![m.from] = new]
      BY <1>4, <2>1 DEF RollbackBegin, RecordInv, TypeOK
    <3>2. new.len = 0
      <4>1. index[m.from] \in Index
        BY <2>1 DEF RecordInv, TypeOK
      <4> QED
        BY <4>1 DEF Reset, Index
    <3>3. index[m.to].len = Lens[m.to]
      BY <2>1 DEF Lens
    <3> HIDE DEF new
    <3> QED
      BY <2>1, <3>1, <3>2, <3>3, LensOfOne
  <2> QED
    BY <1>4, <2>2 DEF RollbackBegin, IsRecordOf, Life!RollbackBegin,
       Life!IsRecordOf, Life!LifeNext, Lens
<1> QED
  BY <1>1, <1>2, <1>3, <1>4

(* The contract, with its keys, pages and entries, lives the life cycle of *)
(* a migration record: what RunDriver shows of a contract reduced to its   *)
(* record and its lengths, it shows of this one.                           *)
THEOREM MigrationImplementsLifecycle == Spec => ImplementsLifecycle
<1>1. Init => Life!LifeInit
  BY DEF Init, EmptyIndex, NoMigration, NoVersion,
         Life!LifeInit, Life!NoMigration, Life!NoVersion, Versions, Life!Versions
<1>2. ASSUME RecordInv, [Next]_vars
      PROVE  [Life!LifeNext]_(<< version, mig, Lens >>)
  <2>1. ASSUME NEW k \in Keys, PutUnindexed(k) \/ Remove(k)
        PROVE  UNCHANGED << version, mig, Lens >>
    BY <2>1 DEF PutUnindexed, Remove, Lens
  <2>2. ASSUME NEW v \in Versions, Deploy(v)
        PROVE  UNCHANGED << version, mig, Lens >>
    BY <2>2 DEF Deploy, Lens
  <2>3. CASE UNCHANGED vars
    BY <2>3 DEF vars, Lens
  <2>4. ASSUME NEW k \in Keys, Put(k)
        PROVE  Life!Register
    BY <2>4, <1>2, CurrentVersionType, RegisterRefines DEF Put
  <2>5. ASSUME NEW k \in Keys, RegisterKey(version, k), version \in Versions
        PROVE  Life!Register
    BY <2>5, <1>2, RegisterRefines DEF RegisterKey
  <2> QED
    BY <1>2, StepCases, <2>1, <2>2, <2>3, <2>4, <2>5, BatchRefines,
       RollbackBatchRefines, OtherStepsRefine DEF Life!LifeNext
<1>3. RecordInv /\ [Next]_vars => [Life!LifeNext]_(<< version, mig, Lens >>)
  BY <1>2
<1> QED
  BY <1>1, <1>3, RecordInvHolds, PTL
     DEF Spec, ImplementsLifecycle, Life!LifeSpec, Life!lifeVars, Lens
=============================================================================
