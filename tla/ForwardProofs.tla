--------------------------- MODULE ForwardProofs ---------------------------
(***************************************************************************)
(* Theorems of a contract that is only ever migrated forward, ForwardSpec: *)
(* the specification without rollbacks, for every set of keys, migrations, *)
(* versions, page size, batch limit and ceiling.                           *)
(*                                                                         *)
(* None of the four safety properties is inductive alone.  Together they   *)
(* are, with six facts the code relies on without stating them: a run      *)
(* never leads past the deployed build, no index was ever reset, an index  *)
(* lists registered keys only, nothing is listed under a version newer     *)
(* than the build, a completed run left every tracked key in its new       *)
(* index, and a key that a late declaration stranded is in no index but    *)
(* the first.                                                              *)
(***************************************************************************)
EXTENDS Preflight, MigrationProofs

ForwardRecord ==
  /\ mig.status \in {"None", "Running", "Completed"}
  /\ version <= code
  /\ mig.status = "Running" => mig.to <= code

IndexesClean == \A v \in Versions : Clean(index[v])

OnlyRegisteredAreIndexed == \A v \in Versions : Indexed(index[v]) \subseteq registered

NothingIndexedAhead == \A v \in Versions : v > code => index[v].len = 0

CompletedListsAll ==
  mig.status = "Completed" => Tracked \subseteq Indexed(index[mig.to])

StrandedApart ==
  /\ version = NoVersion =>
       /\ stranded = {}
       /\ \A v \in Versions : v # INITIAL_VERSION => Indexed(index[v]) = {}
  /\ stranded # {} => version # INITIAL_VERSION
  /\ \A v \in Versions : v # INITIAL_VERSION => stranded \cap Indexed(index[v]) = {}

ForwardInv ==
  /\ RecordInv
  /\ ForwardRecord
  /\ IndexesClean
  /\ OnlyRegisteredAreIndexed
  /\ NothingIndexedAhead
  /\ IndexMatchesShapes
  /\ CursorCountsCarriedKeys
  /\ NoKeyForgotten
  /\ CompletedListsAll
  /\ StrandedApart

(* The version a walk or a write is about, by the state of the record.     *)
LEMMA RecordedType ==
  ASSUME RecordInv, ForwardRecord
  PROVE  /\ Recorded \in Versions /\ Recorded <= code
         /\ mig.status = "Running" =>
              /\ mig.from \in Versions /\ mig.to \in Versions /\ mig.to # mig.from
              /\ Recorded = mig.from /\ CurrentVersion = mig.to
              /\ Recorded < MaxVersion /\ Recorded + 1 = mig.to
              /\ NextIndexed = Indexed(index[mig.to])
         /\ mig.status # "Running" => CurrentVersion = Recorded
         /\ mig.status = "Completed" => Recorded = mig.to /\ mig.to \in Versions
<1>1. version \in Versions \cup {NoVersion} /\ code \in Versions
  BY DEF RecordInv, TypeOK
<1>2. Recorded \in Versions /\ Recorded <= code
  BY <1>1, VersionsAreNat DEF Recorded, ForwardRecord, Versions, INITIAL_VERSION
<1>3. ASSUME mig.status = "Running"
      PROVE  /\ mig.from \in Versions /\ mig.to \in Versions /\ mig.to # mig.from
             /\ Recorded = mig.from /\ CurrentVersion = mig.to
             /\ Recorded < MaxVersion /\ Recorded + 1 = mig.to
             /\ NextIndexed = Indexed(index[mig.to])
  <2>1. /\ mig.from \in Versions /\ mig.to \in Versions /\ mig.to = mig.from + 1
        /\ version = mig.from
    BY <1>3 DEF RecordInv, RecordOK
  <2>2. Recorded = mig.from
    BY <2>1, VersionsAreNat DEF Recorded, NoVersion
  <2>3. mig.from < MaxVersion /\ mig.to # mig.from
    BY <2>1, MigrationAssumption DEF Versions
  <2> QED
    BY <1>3, <2>1, <2>2, <2>3 DEF NextIndexed, CurrentVersion
<1>4. mig.status = "Completed" => Recorded = mig.to /\ mig.to \in Versions
  BY VersionsAreNat DEF RecordInv, RecordOK, Recorded, NoVersion
<1>5. mig.status # "Running" => CurrentVersion = Recorded
  BY DEF CurrentVersion, Recorded
<1> QED
  BY <1>2, <1>3, <1>4, <1>5

(* Every step of ForwardSpec, named once.                                  *)
LEMMA ForwardCases ==
  ASSUME RecordInv, [ForwardNext]_vars
  PROVE  \/ Declare \/ Upgrade \/ UNCHANGED vars \/ Abort \/ Clear
         \/ \E m \in Migrations : code >= m.to /\ Begin(m)
         \/ \E m \in Migrations, limit \in Limits : Batch(m, limit)
         \/ \E k \in Keys : k \notin registered /\ PutUnindexed(k)
         \/ \E k \in Keys : Remove(k)
         \/ \E k \in Keys : Put(k)
         \/ \E k \in Keys : /\ version \in Versions /\ shape[k] >= version
                            /\ RegisterKey(version, k)
<1>1. version # NoVersion => version \in Versions
  BY DEF RecordInv, TypeOK
<1> QED
  BY <1>1 DEF ForwardNext, Application, Forward

(* A contract nobody has called.                                           *)
LEMMA ForwardInvInit == Init => ForwardInv
<1> SUFFICES ASSUME Init PROVE ForwardInv
  OBVIOUS
<1>1. RecordInv
  BY RecordInvInit
<1>2. /\ mig = NoMigration /\ version = 0 /\ code \in Versions
      /\ registered = {} /\ stranded = {}
      /\ \A v \in Versions : index[v] = EmptyIndex
  BY DEF Init, NoVersion, INITIAL_VERSION
<1>3. /\ Clean(EmptyIndex) /\ EmptyIndex.len = 0 /\ Indexed(EmptyIndex) = {}
  <2>1. EmptyIndex \in Index /\ Clean(EmptyIndex) /\ EmptyIndex.len = 0
    BY EmptyCovers DEF EmptyIndex
  <2> QED
    BY <2>1, CursorEnds
<1>4. mig.status = "None"
  BY <1>2 DEF NoMigration
<1> QED
  BY <1>1, <1>2, <1>3, <1>4, VersionsAreNat
     DEF ForwardInv, ForwardRecord, IndexesClean, OnlyRegisteredAreIndexed,
         NothingIndexedAhead, IndexMatchesShapes, CursorCountsCarriedKeys,
         NoKeyForgotten, CompletedListsAll, StrandedApart, Tracked

-----------------------------------------------------------------------------
(* Steps that leave the indexes, the entries and what is registered alone. *)
(* begin sees everything the recorded version lists ahead of it, and an    *)
(* abort gives up a cursor: neither forgets a key.                         *)
LEMMA ForwardInvRecordSteps ==
  ASSUME ForwardInv, RecordInv',
         \/ Declare \/ Upgrade \/ UNCHANGED vars \/ Abort \/ Clear
         \/ \E m \in Migrations : code >= m.to /\ Begin(m)
  PROVE  ForwardInv'
<1>1. /\ UNCHANGED << index, shape, registered >>
      /\ code' >= code
      /\ Declare \/ UNCHANGED stranded
  <2>1. code \in Nat
    BY VersionsAreNat DEF ForwardInv, RecordInv, TypeOK
  <2> QED
    BY <2>1 DEF Declare, Initialize, Adopt, Upgrade, Deploy, vars, Abort, Clear, Begin
<1>2. /\ code \in Nat /\ code' \in Nat /\ version \in Nat
      /\ Versions \subseteq Nat /\ mig.to \in Nat
  <2>1. /\ code \in Versions /\ code' \in Versions /\ version \in Versions \cup {0}
        /\ mig.to \in Versions \cup {0}
    BY DEF ForwardInv, RecordInv, TypeOK, NoVersion
  <2>2. Versions \subseteq Nat
    BY VersionsAreNat
  <2>3. Versions \cup {0} \subseteq Nat
    BY <2>2
  <2> QED
    BY <2>1, <2>2, <2>3, Zenon
<1>3. /\ IndexesClean' /\ OnlyRegisteredAreIndexed' /\ NothingIndexedAhead'
      /\ IndexMatchesShapes'
  <2>1. IndexesClean' /\ OnlyRegisteredAreIndexed' /\ IndexMatchesShapes'
    BY <1>1 DEF ForwardInv, IndexesClean, OnlyRegisteredAreIndexed, IndexMatchesShapes
  <2>2. \A v \in Versions : v > code' => v > code
    BY <1>1, <1>2
  <2> QED
    BY <1>1, <2>1, <2>2 DEF ForwardInv, NothingIndexedAhead
<1>4. /\ ForwardRecord' /\ CursorCountsCarriedKeys' /\ NoKeyForgotten'
      /\ CompletedListsAll' /\ StrandedApart'
  <2>1. CASE Declare
    <3>1. /\ version = 0 /\ version' = code /\ code' = code /\ mig' = mig
          /\ version' \in Versions /\ version' # 0
          /\ stranded' = IF version' = 1 THEN stranded ELSE registered
      BY <2>1, VersionsAreNat DEF Declare, Initialize, Adopt, StrandedBy, NoVersion,
         INITIAL_VERSION, ForwardInv, RecordInv, TypeOK
    <3>2. mig.status = "None"
      BY <3>1, VersionsAreNat DEF ForwardInv, ForwardRecord, RecordInv, RecordOK
    <3>3. ForwardRecord' /\ CursorCountsCarriedKeys' /\ CompletedListsAll'
      BY <1>2, <3>1, <3>2 DEF ForwardRecord, CursorCountsCarriedKeys, CompletedListsAll
    <3>4. /\ stranded = {}
          /\ \A v \in Versions : v # INITIAL_VERSION => Indexed(index[v]) = {}
      BY <3>1 DEF ForwardInv, StrandedApart, NoVersion
    <3>5. StrandedApart'
      BY <1>1, <3>1, <3>4 DEF StrandedApart, NoVersion, INITIAL_VERSION
    <3>6. NoKeyForgotten'
      <4>1. CASE version' = 1
        <5>1. Recorded' = Recorded /\ Tracked' = Tracked
          BY <1>1, <3>1, <3>4, <4>1 DEF Recorded, NoVersion, INITIAL_VERSION, Tracked
        <5> QED
          BY <1>1, <3>1, <5>1 DEF ForwardInv, NoKeyForgotten, NextIndexed
      <4>2. CASE version' # 1
        <5>1. Tracked' = {}
          BY <1>1, <3>1, <4>2 DEF Tracked
        <5> QED
          BY <5>1 DEF NoKeyForgotten
      <4> QED
        BY <4>1, <4>2
    <3> QED
      BY <3>3, <3>5, <3>6
  <2>2. CASE Upgrade \/ UNCHANGED vars
    <3>1. UNCHANGED << version, mig, stranded >>
      BY <2>2 DEF Upgrade, Deploy, vars
    <3>2. Recorded' = Recorded /\ Tracked' = Tracked
      BY <1>1, <3>1 DEF Recorded, Tracked
    <3> QED
      BY <1>1, <1>2, <3>1, <3>2
         DEF ForwardInv, ForwardRecord, CursorCountsCarriedKeys, NoKeyForgotten,
             CompletedListsAll, NextIndexed, StrandedApart
  <2>3. CASE Abort \/ Clear
    <3>1. mig'.status = "None" /\ UNCHANGED << version, code, stranded >>
      BY <2>3 DEF Abort, Clear, NoMigration
    <3>2. Recorded' = Recorded /\ Recorded \in Versions /\ Tracked' = Tracked
      BY <1>1, <3>1, RecordedType DEF Recorded, ForwardInv, Tracked
    <3>3. mig.cursor \in Nat /\ index[Recorded] \in Index
      BY <3>2, KeyIndexAssumption DEF ForwardInv, RecordInv, TypeOK
    <3>4. KeysFrom(index[Recorded], mig.cursor) \subseteq Indexed(index[Recorded])
      BY <3>3, CursorEnds
    <3> QED
      BY <1>1, <3>1, <3>2, <3>4
         DEF ForwardInv, ForwardRecord, CursorCountsCarriedKeys, NoKeyForgotten,
             CompletedListsAll, NextIndexed, StrandedApart
  <2>4. ASSUME NEW m \in Migrations, code >= m.to, Begin(m)
        PROVE  /\ ForwardRecord' /\ CursorCountsCarriedKeys' /\ NoKeyForgotten'
               /\ CompletedListsAll' /\ StrandedApart'
    <3>1. /\ mig' = [status |-> "Running", from |-> m.from, to |-> m.to,
                     cursor |-> 0, total |-> index[m.from].len]
          /\ UNCHANGED << version, code, stranded >> /\ version = m.from
          /\ m.from \in Versions
          /\ mig.status # "Running"
      BY <2>4, MigrationAssumption DEF Begin, IsActive
    <3>2. Recorded' = Recorded /\ Recorded = m.from /\ Tracked' = Tracked
      BY <1>1, <3>1, VersionsAreNat DEF Recorded, NoVersion, Tracked
    <3>3. index[m.from] \in Index /\ index[m.from].len \in Nat
      BY <3>1, KeyIndexAssumption DEF ForwardInv, RecordInv, TypeOK, Index
    <3>4. /\ KeysBelow(index[m.from], 0) = {}
          /\ KeysFrom(index[m.from], 0) = Indexed(index[m.from])
      BY <3>3, CursorEnds
    <3> QED
      BY <1>1, <2>4, <3>1, <3>2, <3>3, <3>4
         DEF ForwardInv, ForwardRecord, CursorCountsCarriedKeys, NoKeyForgotten,
             CompletedListsAll, NextIndexed, StrandedApart
  <2> QED
    BY <2>1, <2>2, <2>3, <2>4
<1> QED
  BY <1>3, <1>4 DEF ForwardInv

(* Writes to entries no index lists, and removals: the log keeps the key.  *)
LEMMA ForwardInvEntrySteps ==
  ASSUME ForwardInv, RecordInv', NEW k \in Keys,
         (k \notin registered /\ PutUnindexed(k)) \/ Remove(k)
  PROVE  ForwardInv'
<1>1. UNCHANGED << version, mig, index, code, registered, stranded >>
  BY DEF PutUnindexed, Remove
<1>2. IndexMatchesShapes'
  <2> SUFFICES ASSUME NEW v \in Versions, NEW j \in Indexed(index[v]) \cap Managed
               PROVE  shape'[j] = Absent \/ shape'[j] >= v
    BY <1>1 DEF IndexMatchesShapes
  <2>1. j \in registered /\ (shape[j] = Absent \/ shape[j] >= v)
    BY DEF ForwardInv, OnlyRegisteredAreIndexed, IndexMatchesShapes
  <2>2. shape \in [Keys -> Versions \cup {Absent}]
    BY DEF ForwardInv, RecordInv, TypeOK
  <2>3. shape'[j] = shape[j] \/ shape'[j] = Absent
    <3>1. j \in Keys
      BY MigrationAssumption
    <3> QED
      BY <2>1, <2>2, <3>1 DEF PutUnindexed, Remove
  <2> QED
    BY <2>1, <2>3
<1> QED
  BY <1>1, <1>2
     DEF ForwardInv, ForwardRecord, IndexesClean, OnlyRegisteredAreIndexed,
         NothingIndexedAhead, CursorCountsCarriedKeys, NoKeyForgotten,
         CompletedListsAll, StrandedApart, Tracked, NextIndexed, Recorded

-----------------------------------------------------------------------------
(* One registration, under the version of the write path or the recorded   *)
(* one, of an entry whose shape is as new as that version: it lands either *)
(* ahead of the cursor or in the index being filled, so no batch that has  *)
(* passed can have missed it.                                              *)
LEMMA ForwardInvRegister ==
  ASSUME ForwardInv, RecordInv', NEW v \in {CurrentVersion, Recorded}, NEW k \in Keys,
         index[v].len < MaxLen,
         index' = [index EXCEPT ![v] = Register(@, k)],
         registered' = registered \cup {k},
         stranded' = stranded \ {k},
         UNCHANGED << version, mig, code >>,
         shape'[k] = Absent \/ shape'[k] >= v,
         \/ shape' = [shape EXCEPT ![k] = code]
         \/ shape' = shape
  PROVE  ForwardInv'
<1> USE DEF ForwardInv
<1>1. /\ Recorded \in Versions /\ Recorded <= code
      /\ mig.status = "Running" =>
           /\ mig.from \in Versions /\ mig.to \in Versions /\ mig.to # mig.from
           /\ Recorded = mig.from /\ CurrentVersion = mig.to
           /\ Recorded < MaxVersion /\ Recorded + 1 = mig.to
           /\ NextIndexed = Indexed(index[mig.to])
           /\ mig.to <= code
      /\ mig.status # "Running" => CurrentVersion = Recorded
      /\ mig.status = "Completed" => Recorded = mig.to
  BY RecordedType DEF ForwardRecord
<1>2. v \in Versions /\ v <= code /\ code \in Nat /\ Versions \subseteq Nat
  BY <1>1, VersionsAreNat DEF RecordInv, TypeOK
<1>3. /\ index \in [Versions -> Index] /\ shape \in [Keys -> Versions \cup {Absent}]
      /\ mig.cursor \in Nat /\ mig.total \in Nat
  BY KeyIndexAssumption DEF RecordInv, TypeOK
<1> DEFINE new == Register(index[v], k)
<1>4. /\ new \in Index /\ new.len = index[v].len + 1 /\ Clean(new)
      /\ Indexed(new) = Indexed(index[v]) \cup {k}
      /\ \A c \in Nat : c <= index[v].len =>
           /\ KeysFrom(new, c) = KeysFrom(index[v], c) \cup {k}
           /\ KeysBelow(new, c) = KeysBelow(index[v], c)
  <2>1. index[v] \in Index /\ Clean(index[v])
    BY <1>2, <1>3 DEF IndexesClean
  <2> QED
    BY <2>1, RegisterCovers, IndexedRegister, RegisterIsAhead
<1>5. /\ index'[v] = new
      /\ \A w \in Versions : w # v => index'[w] = index[w]
      /\ \A w \in Versions : Indexed(index[w]) \subseteq Indexed(index'[w])
      /\ \A w \in Versions : Indexed(index'[w]) \subseteq Indexed(index[w]) \cup {k}
  BY <1>2, <1>3, <1>4
<1> HIDE DEF new
<1>6. \A w \in Versions : index[w].len \in Nat /\ index'[w].len >= index[w].len
  <2>1. \A w \in Versions : index[w].len \in Nat
    BY <1>3, KeyIndexAssumption DEF Index
  <2> QED
    BY <1>2, <1>4, <1>5, <2>1
<1>7. ForwardRecord'
  BY DEF ForwardRecord
<1>8. IndexesClean' /\ OnlyRegisteredAreIndexed'
  BY <1>4, <1>5 DEF IndexesClean, OnlyRegisteredAreIndexed
<1>9. NothingIndexedAhead'
  BY <1>2, <1>5 DEF NothingIndexedAhead
<1>10. IndexMatchesShapes'
  <2> SUFFICES ASSUME NEW w \in Versions, NEW j \in Indexed(index'[w]) \cap Managed
               PROVE  shape'[j] = Absent \/ shape'[j] >= w
    BY DEF IndexMatchesShapes
  <2>1. CASE j # k
    <3>1. shape'[j] = shape[j]
      BY <1>3, <2>1, MigrationAssumption
    <3>2. j \in Indexed(index[w])
      BY <1>5, <2>1
    <3> QED
      BY <3>1, <3>2 DEF IndexMatchesShapes
  <2>2. CASE j = k /\ w = v
    BY <2>2
  <2>3. CASE j = k /\ w # v
    <3>1. k \in Indexed(index[w])
      BY <1>5, <2>3
    <3>2. index[w].len # 0
      BY <1>3, <3>1, CursorEnds
    <3>3. w <= code
      BY <1>2, <3>2 DEF NothingIndexedAhead
    <3>4. shape'[k] = code \/ shape'[k] = shape[k]
      BY <1>3
    <3> QED
      BY <2>3, <3>1, <3>3, <3>4 DEF IndexMatchesShapes
  <2> QED
    BY <2>1, <2>2, <2>3
<1>11. Recorded' = Recorded
  BY DEF Recorded
<1>12. CursorCountsCarriedKeys'
  <2> SUFFICES ASSUME mig.status \in {"Running", "Completed"}
               PROVE  /\ mig.cursor <= mig.total
                      /\ mig.total <= index'[mig.from].len
                      /\ KeysBelow(index'[mig.from], mig.cursor) \subseteq Indexed(index'[mig.to])
    BY DEF CursorCountsCarriedKeys
  <2>1. mig.from \in Versions /\ mig.to \in Versions
    BY DEF RecordInv, RecordOK
  <2>2. /\ mig.cursor <= mig.total
        /\ mig.total <= index[mig.from].len
        /\ KeysBelow(index[mig.from], mig.cursor) \subseteq Indexed(index[mig.to])
    BY DEF CursorCountsCarriedKeys
  <2>3. mig.total <= index'[mig.from].len /\ mig.cursor <= index[mig.from].len
    <3>1. index[mig.from].len \in Nat /\ index'[mig.from].len >= index[mig.from].len
      BY <1>6, <2>1
    <3>2. index'[mig.from].len \in Nat
      BY <1>4, <1>5, <2>1, <3>1
    <3> QED
      BY <1>3, <2>2, <3>1, <3>2
  <2>4. KeysBelow(index'[mig.from], mig.cursor) = KeysBelow(index[mig.from], mig.cursor)
    BY <1>3, <1>4, <1>5, <2>1, <2>3
  <2> QED
    BY <1>5, <2>1, <2>2, <2>3, <2>4
<1>15. Tracked' = Tracked \cup {k}
  BY DEF Tracked
<1>13. NoKeyForgotten'
  <2>1. CASE mig.status = "Running"
    <3>1. NextIndexed' = Indexed(index'[mig.to])
      BY <1>1, <1>11, <2>1 DEF NextIndexed
    <3>2. mig.cursor <= index[mig.from].len
      BY <1>1, <1>3, <1>6, <2>1 DEF CursorCountsCarriedKeys
    <3>3. KeysFrom(index[mig.from], mig.cursor) \subseteq KeysFrom(index'[mig.from], mig.cursor)
      BY <1>1, <1>3, <1>4, <1>5, <2>1, <3>2
    <3>4. k \in KeysFrom(index'[mig.from], mig.cursor) \cup Indexed(index'[mig.to])
      BY <1>1, <1>3, <1>4, <1>5, <2>1, <3>2
    <3>5. Tracked \subseteq KeysFrom(index[mig.from], mig.cursor) \cup Indexed(index[mig.to])
      BY <1>1, <2>1 DEF NoKeyForgotten
    <3> QED
      BY <1>1, <1>5, <1>11, <1>15, <2>1, <3>1, <3>3, <3>4, <3>5 DEF NoKeyForgotten
  <2>2. CASE mig.status # "Running"
    <3>1. k \in Indexed(index'[Recorded])
      BY <1>1, <1>4, <1>5, <2>2
    <3>2. NextIndexed \subseteq NextIndexed'
      <4>1. Recorded < MaxVersion => Recorded + 1 \in Versions
        BY <1>1, MigrationAssumption DEF Versions
      <4> QED
        BY <1>5, <1>11, <4>1 DEF NextIndexed
    <3>3. Tracked \subseteq Indexed(index[Recorded]) \cup NextIndexed
      BY <2>2 DEF NoKeyForgotten
    <3> QED
      BY <1>1, <1>5, <1>11, <1>15, <2>2, <3>1, <3>2, <3>3 DEF NoKeyForgotten
  <2> QED
    BY <2>1, <2>2
<1>14. CompletedListsAll'
  BY <1>1, <1>4, <1>5, <1>15 DEF CompletedListsAll
<1>16. StrandedApart'
  <2>1. ASSUME version = NoVersion
        PROVE  v = INITIAL_VERSION
    <3>1. mig.status # "Running"
      BY <2>1, VersionsAreNat DEF RecordInv, RecordOK, NoVersion
    <3> QED
      BY <1>1, <2>1, <3>1 DEF Recorded
  <2>2. \A w \in Versions : stranded' \cap Indexed(index'[w]) \subseteq
                              stranded \cap Indexed(index[w])
    BY <1>5
  <2>3. \A w \in Versions : w # v => Indexed(index'[w]) = Indexed(index[w])
    BY <1>5
  <2> QED
    BY <2>1, <2>2, <2>3 DEF StrandedApart
<1> QED
  BY <1>7, <1>8, <1>9, <1>10, <1>12, <1>13, <1>14, <1>16

(* A write through the store is one registration.                          *)
LEMMA ForwardInvPut ==
  ASSUME ForwardInv, NEW k \in Keys, Put(k)
  PROVE  ForwardInv'
<1>1. RecordInv'
  BY RecordInvPut DEF ForwardInv
<1>2. shape'[k] = code
  BY DEF Put, ForwardInv, RecordInv, TypeOK
<1>3. code >= CurrentVersion
  <2>1. /\ mig.status = "Running" => CurrentVersion = mig.to /\ mig.to <= code
        /\ mig.status # "Running" => CurrentVersion = Recorded
        /\ Recorded <= code
    BY RecordedType DEF ForwardInv, ForwardRecord
  <2>2. code \in Nat /\ CurrentVersion \in Nat
    <3>1. code \in Versions /\ CurrentVersion \in Versions
      BY CurrentVersionType DEF ForwardInv, RecordInv, TypeOK
    <3> QED
      BY <3>1, VersionsAreNat
  <2> QED
    BY <2>1, <2>2
<1> QED
  BY <1>1, <1>2, <1>3, ForwardInvRegister DEF Put

(* So is a backfill of an entry of the recorded version.                   *)
LEMMA ForwardInvRegisterKey ==
  ASSUME ForwardInv, NEW k \in Keys,
         version \in Versions, shape[k] >= version, RegisterKey(version, k)
  PROVE  ForwardInv'
<1>1. RecordInv'
  BY RecordInvRegisterKey DEF ForwardInv
<1>2. Recorded = version
  BY VersionsAreNat DEF Recorded, NoVersion
<1>3. shape' = shape
  BY DEF RegisterKey
<1> QED
  BY <1>1, <1>2, <1>3, ForwardInvRegister DEF RegisterKey

-----------------------------------------------------------------------------
(* A batch: the keys of its window leave the cursor's far side for the new *)
(* index, and what up made of them is as new as the version that now lists *)
(* them.  The batch that reaches the total leaves nothing on the far side. *)
LEMMA ForwardInvBatch ==
  ASSUME ForwardInv, NEW m \in Migrations, NEW limit \in Limits, Batch(m, limit)
  PROVE  ForwardInv'
<1> USE DEF ForwardInv
<1>1. PICK w : w = RangeOf(index[m.from], mig.cursor, limit)
  OBVIOUS
<1>2. /\ mig.from = m.from /\ mig.to = m.to /\ version = m.from
      /\ m.from \in Versions /\ m.to \in Versions /\ m.to = m.from + 1
      /\ mig.status = "Running"
      /\ w \in Seq(Keys)
      /\ Len(w) = RangeLen(index[m.from], mig.cursor, limit)
      /\ index[m.to].len + Len(w) <= MaxLen
      /\ shape' = Up(m, KeysOf(w))
      /\ index' = [index EXCEPT ![m.to] = RegisterAll(@, w)]
      /\ mig'.from = m.from /\ mig'.to = m.to
      /\ mig'.cursor = mig.cursor + Len(w)
      /\ mig'.total = Greatest(mig.total, index[m.from].len)
      /\ mig'.status \in {"Running", "Completed"}
      /\ IF mig'.cursor >= mig'.total
         THEN mig'.status = "Completed" /\ version' = m.to
         ELSE mig'.status = "Running" /\ version' = version
      /\ UNCHANGED << code, registered, stranded >>
  BY <1>1, BatchStep
<1>3. /\ index \in [Versions -> Index] /\ shape \in [Keys -> Versions \cup {Absent}]
      /\ mig.cursor \in Nat /\ mig.total \in Nat /\ limit \in Nat
      /\ code \in Nat /\ Versions \subseteq Nat
      /\ index[m.from] \in Index /\ index[m.from].len \in Nat
      /\ m.from \in Nat /\ m.to \in Nat /\ m.to # m.from
  <2>1. /\ index \in [Versions -> Index] /\ shape \in [Keys -> Versions \cup {Absent}]
        /\ mig.cursor \in Nat /\ mig.total \in Nat /\ code \in Versions
    BY KeyIndexAssumption DEF RecordInv, TypeOK
  <2>2. limit \in Nat /\ Versions \subseteq Nat
    BY VersionsAreNat, MigrationAssumption
  <2>3. code \in Nat /\ m.from \in Nat /\ m.to \in Nat
    BY <1>2, <2>1, <2>2
  <2>4. index[m.from] \in Index /\ index[m.from].len \in Nat
    BY <1>2, <2>1, KeyIndexAssumption DEF Index
  <2>5. m.to # m.from
    BY <1>2, <2>3
  <2> QED
    BY <2>1, <2>2, <2>3, <2>4, <2>5
<1>4. RangeReadable(index[m.from], mig.cursor, limit)
  BY DEF Batch
<1>5. m.to <= code
  BY <1>2 DEF ForwardRecord
<1>6. /\ KeysFrom(index[m.from], mig.cursor)
           = KeysOf(w) \cup KeysFrom(index[m.from], mig.cursor + Len(w))
      /\ KeysBelow(index[m.from], mig.cursor + Len(w))
           \subseteq KeysBelow(index[m.from], mig.cursor) \cup KeysOf(w)
      /\ KeysFrom(index[m.from], mig.cursor) \subseteq Indexed(index[m.from])
  BY <1>1, <1>3, <1>4, WindowMovesCursor, CursorEnds
<1> DEFINE new == RegisterAll(index[m.to], w)
<1>7. /\ new \in Index /\ Clean(new)
      /\ Indexed(new) = Indexed(index[m.to]) \cup KeysOf(w)
  <2>1. index[m.to] \in Index /\ Clean(index[m.to])
    BY <1>2, <1>3 DEF IndexesClean
  <2> QED
    BY <1>2, <2>1, RegisterAllType, RegisterAllCovers, IndexedRegisterAll
<1>8. /\ index'[m.to] = new
      /\ \A v \in Versions : v # m.to => index'[v] = index[v]
      /\ index'[m.from] = index[m.from]
  BY <1>2, <1>3
<1> HIDE DEF new
<1>9. RecordInv'
  BY RecordInvBatch
<1>10. ForwardRecord'
  <2>1. version' <= code
    BY <1>2, <1>5 DEF ForwardRecord
  <2> QED
    BY <1>2, <1>5, <2>1 DEF ForwardRecord
<1>11. IndexesClean' /\ OnlyRegisteredAreIndexed'
  <2>1. KeysOf(w) \subseteq registered
    BY <1>2, <1>6 DEF OnlyRegisteredAreIndexed
  <2> QED
    BY <1>2, <1>7, <1>8, <2>1 DEF IndexesClean, OnlyRegisteredAreIndexed
<1>12. NothingIndexedAhead'
  <2>1. \A v \in Versions : v > code => v # m.to
    BY <1>2, <1>3, <1>5
  <2> QED
    BY <1>2, <1>8, <2>1 DEF NothingIndexedAhead
<1>13. IndexMatchesShapes'
  <2> SUFFICES ASSUME NEW v \in Versions, NEW j \in Indexed(index'[v]) \cap Managed
               PROVE  shape'[j] = Absent \/ shape'[j] >= v
    BY DEF IndexMatchesShapes
  <2>1. j \in Keys /\ shape[j] \in Versions \cup {Absent}
    BY <1>3, MigrationAssumption
  <2>2. shape'[j] = IF j \in KeysOf(w) /\ shape[j] = m.from THEN m.to ELSE shape[j]
    BY <1>2, <2>1 DEF Up
  <2>3. CASE j \in Indexed(index[v])
    <3>1. shape[j] = Absent \/ shape[j] >= v
      BY <2>3 DEF IndexMatchesShapes
    <3>2. m.from >= v => m.to >= v
      <4>1. v \in Nat
        BY <1>3
      <4> QED
        BY <1>2, <1>3, <4>1
    <3>3. m.from # Absent
      BY <1>2, VersionsAreNat DEF Absent
    <3> QED
      BY <2>2, <3>1, <3>2, <3>3
  <2>4. CASE j \notin Indexed(index[v])
    <3>1. v = m.to /\ j \in KeysOf(w)
      BY <1>7, <1>8, <2>4
    <3>2. j \in Indexed(index[m.from])
      BY <1>6, <3>1
    <3>3. shape[j] = Absent \/ shape[j] >= m.from
      BY <1>2, <3>2 DEF IndexMatchesShapes
    <3>4. shape[j] = m.from \/ shape[j] = Absent \/ shape[j] >= m.to
      <4>1. shape[j] \in Nat \/ shape[j] = Absent
        BY <1>3, <2>1
      <4> QED
        BY <1>2, <1>3, <3>3, <4>1
    <3>5. m.to >= m.to
      BY <1>2, <1>3
    <3> QED
      BY <2>2, <3>1, <3>4, <3>5
  <2> QED
    BY <2>3, <2>4
<1>14. /\ mig.cursor <= mig.total /\ mig.total <= index[m.from].len
       /\ KeysBelow(index[m.from], mig.cursor) \subseteq Indexed(index[m.to])
  BY <1>2 DEF CursorCountsCarriedKeys
<1>15. mig'.total = index[m.from].len /\ mig'.cursor <= index[m.from].len /\ mig'.cursor \in Nat
  <2>1. /\ Len(w) \in Nat
        /\ mig.cursor < index[m.from].len => mig.cursor + Len(w) <= index[m.from].len
        /\ mig.cursor >= index[m.from].len => Len(w) = 0
    BY <1>2, <1>3, <1>4, RangeType
  <2> QED
    BY <1>2, <1>3, <1>14, <2>1 DEF Greatest
<1>16. CursorCountsCarriedKeys'
  <2>1. KeysBelow(index[m.from], mig'.cursor) \subseteq Indexed(new)
    BY <1>2, <1>6, <1>7, <1>14
  <2>2. mig'.cursor <= mig'.total /\ mig'.total <= index'[m.from].len
    BY <1>3, <1>8, <1>15
  <2> QED
    BY <1>2, <1>8, <2>1, <2>2 DEF CursorCountsCarriedKeys
<1>17. Recorded = m.from /\ NextIndexed = Indexed(index[m.to])
       /\ Recorded < MaxVersion /\ Recorded + 1 = m.to
  BY <1>2, RecordedType
<1>18. Tracked \subseteq KeysFrom(index[m.from], mig'.cursor) \cup Indexed(new)
  BY <1>2, <1>6, <1>7, <1>17 DEF NoKeyForgotten
<1>21. Tracked' = Tracked
  BY <1>2 DEF Tracked
<1>22. StrandedApart'
  <2>1. version' # NoVersion /\ (version' = version \/ version' # INITIAL_VERSION)
    <3>1. m.from \in Nat \ {0} /\ m.to \in Nat \ {0} /\ m.to = m.from + 1
      BY <1>2, VersionsAreNat
    <3>2. m.from # 0 /\ m.to # 0 /\ m.to # 1
      BY <3>1
    <3> QED
      BY <1>2, <3>2 DEF NoVersion, INITIAL_VERSION
  <2>2. stranded # {} => m.from # INITIAL_VERSION
    BY <1>2 DEF StrandedApart
  <2>3. stranded \cap KeysOf(w) = {}
    BY <1>2, <1>6, <2>2 DEF StrandedApart
  <2>4. \A v \in Versions : stranded \cap Indexed(index'[v]) = stranded \cap Indexed(index[v])
    BY <1>2, <1>7, <1>8, <2>3
  <2> QED
    BY <1>2, <2>1, <2>4 DEF StrandedApart
<1>19. CASE mig'.status = "Completed"
  <2>1. mig'.cursor >= index[m.from].len
    BY <1>2, <1>15, <1>19
  <2>2. KeysFrom(index[m.from], mig'.cursor) = {}
    BY <1>3, <1>15, <2>1, CursorEnds
  <2>3. Tracked \subseteq Indexed(index'[m.to])
    BY <1>8, <1>18, <2>2
  <2>4. Recorded' = m.to
    BY <1>2, <1>19, VersionsAreNat DEF Recorded, NoVersion
  <2>5. NoKeyForgotten' /\ CompletedListsAll'
    BY <1>2, <1>19, <1>21, <2>3, <2>4 DEF NoKeyForgotten, CompletedListsAll
  <2> QED
    BY <1>9, <1>10, <1>11, <1>12, <1>13, <1>16, <1>22, <2>5
<1>20. CASE mig'.status = "Running"
  <2>1. version' = version
    BY <1>2, <1>20
  <2>2. Recorded' = Recorded
    BY <2>1 DEF Recorded
  <2>3. NextIndexed' = Indexed(index'[m.to])
    BY <1>17, <2>2 DEF NextIndexed
  <2>4. NoKeyForgotten' /\ CompletedListsAll'
    BY <1>2, <1>8, <1>17, <1>18, <1>20, <1>21, <2>2, <2>3 DEF NoKeyForgotten, CompletedListsAll
  <2> QED
    BY <1>9, <1>10, <1>11, <1>12, <1>13, <1>16, <1>22, <2>4
<1> QED
  BY <1>2, <1>19, <1>20

(* Every step of ForwardSpec keeps ForwardInv.                             *)
LEMMA ForwardInvStep ==
  ASSUME ForwardInv, [ForwardNext]_vars
  PROVE  ForwardInv'
<1>1. RecordInv'
  BY RecordInvStep DEF ForwardInv, Next
<1> QED
  BY <1>1, ForwardCases, ForwardInvRecordSteps, ForwardInvEntrySteps, ForwardInvPut,
     ForwardInvRegisterKey, ForwardInvBatch DEF ForwardInv

(* ForwardInv is an invariant of ForwardSpec.                              *)
LEMMA ForwardInvHolds == ForwardSpec => []ForwardInv
<1>1. ForwardInv /\ [ForwardNext]_vars => ForwardInv'
  BY ForwardInvStep
<1> QED
  BY <1>1, ForwardInvInit, PTL DEF ForwardSpec

(* executor.rs:215-219: a registered key "can never fall out of the        *)
(* framework's view": in every state it is still ahead of the cursor of    *)
(* the run in flight, or in the index of the recorded version, or in the   *)
(* one the next or current run fills; whatever version was declared, but   *)
(* for the keys registered before a later version than the first was       *)
(* declared and not since.                                                 *)
THEOREM NoKeyIsForgotten == ForwardSpec => []NoKeyForgotten
<1>1. ForwardInv => NoKeyForgotten
  BY DEF ForwardInv
<1> QED
  BY <1>1, ForwardInvHolds, PTL

(* store.rs:14-18: the index and the data cannot get out of step: an entry *)
(* a version lists is never of an older shape than it.                     *)
THEOREM ShapesMatchIndexes == ForwardSpec => []IndexMatchesShapes
<1>1. ForwardInv => IndexMatchesShapes
  BY DEF ForwardInv
<1> QED
  BY <1>1, ForwardInvHolds, PTL

(* migration.rs:40-45, executor.rs:230-238: a run in flight, or completed, *)
(* has carried every key below its cursor into the new index, and neither  *)
(* its cursor nor its total runs ahead of the old index.                   *)
THEOREM CursorCounts == ForwardSpec => []CursorCountsCarriedKeys
<1>1. ForwardInv => CursorCountsCarriedKeys
  BY DEF ForwardInv
<1> QED
  BY <1>1, ForwardInvHolds, PTL

(* executor.rs:163-165 and 232-247: a migration that reports completion    *)
(* lists every tracked key in the new version's index and has left none of *)
(* the tracked entries it manages in an older shape, whatever was written, *)
(* removed, backfilled, deployed, aborted and restarted meanwhile.         *)
THEOREM CompletionLeavesNothing == ForwardSpec => []NothingLeftBehind
<1>1. ForwardInv => NothingLeftBehind
  <2> SUFFICES ASSUME ForwardInv, mig.status = "Completed", NEW k \in Tracked
               PROVE  /\ k \in Indexed(index[mig.to])
                      /\ k \in Managed /\ shape[k] # Absent => shape[k] >= mig.to
    BY DEF NothingLeftBehind
  <2>1. k \in Indexed(index[mig.to]) /\ mig.to \in Versions
    BY RecordedType DEF ForwardInv, CompletedListsAll
  <2> QED
    BY <2>1 DEF ForwardInv, IndexMatchesShapes
<1> QED
  BY <1>1, ForwardInvHolds, PTL

-----------------------------------------------------------------------------
(* On clean pages the orphan check asks whether every key is listed.       *)
LEMMA CheckAsksTheIndex ==
  ASSUME NEW idx \in Index, Clean(idx), NEW ks, ks \subseteq Keys
  PROVE  {k \in ks : ~ContainsKey(idx, k)} = {} <=> ks \subseteq Indexed(idx)
<1>1. \A k \in ks : ContainsKey(idx, k) <=> k \in Indexed(idx)
  BY CleanContains
<1> QED
  BY <1>1

(* A step outside a run adds to the index of the recorded version whatever *)
(* it registers.                                                           *)
LEMMA QuietStepsListWhatTheyRegister ==
  ASSUME ForwardInv, [ForwardNext]_vars, mig.status # "Running",
         Tracked \subseteq Indexed(index[Recorded])
  PROVE  Tracked' \subseteq Indexed(index'[Recorded'])
<1>1. Recorded \in Versions /\ CurrentVersion = Recorded
  BY RecordedType DEF ForwardInv
<1>2. index[Recorded] \in Index /\ Clean(index[Recorded]) /\ index \in [Versions -> Index]
  BY <1>1 DEF ForwardInv, RecordInv, TypeOK, IndexesClean
<1>3. CASE \/ Upgrade \/ UNCHANGED vars \/ Abort \/ Clear
           \/ \E m \in Migrations : code >= m.to /\ Begin(m)
           \/ \E k \in Keys : k \notin registered /\ PutUnindexed(k)
           \/ \E k \in Keys : Remove(k)
  <2>1. UNCHANGED << version, index, registered, stranded >>
    BY <1>3 DEF Upgrade, Deploy, vars, Abort, Clear, Begin, PutUnindexed, Remove
  <2>2. Recorded' = Recorded /\ Tracked' = Tracked
    BY <2>1 DEF Recorded, Tracked
  <2> QED
    BY <2>1, <2>2
<1>7. CASE Declare
  <2>1. /\ version = NoVersion /\ UNCHANGED << index, registered >>
        /\ stranded' = IF version' = INITIAL_VERSION THEN stranded ELSE registered
    BY <1>7 DEF Declare, Initialize, Adopt, StrandedBy
  <2>2. CASE version' = INITIAL_VERSION
    <3>1. Recorded' = Recorded /\ Tracked' = Tracked
      BY <2>1, <2>2 DEF Recorded, Tracked
    <3> QED
      BY <2>1, <3>1
  <2>3. CASE version' # INITIAL_VERSION
    <3>1. Tracked' = {}
      BY <2>1, <2>3 DEF Tracked
    <3> QED
      BY <3>1
  <2> QED
    BY <2>2, <2>3
<1>4. ASSUME NEW k \in Keys,
             Put(k) \/ (version \in Versions /\ RegisterKey(version, k))
      PROVE  Tracked' \subseteq Indexed(index'[Recorded'])
  <2>1. /\ index' = [index EXCEPT ![Recorded] = Register(@, k)]
        /\ index[Recorded].len < MaxLen
        /\ Tracked' = Tracked \cup {k}
        /\ version' = version
    <3>1. version \in Versions => Recorded = version
      BY VersionsAreNat DEF Recorded, NoVersion
    <3> QED
      BY <1>1, <1>4, <3>1 DEF Put, RegisterKey, Tracked
  <2>2. Recorded' = Recorded
    BY <2>1 DEF Recorded
  <2>3. index'[Recorded] = Register(index[Recorded], k)
    BY <1>1, <1>2, <2>1
  <2>4. Indexed(Register(index[Recorded], k)) = Indexed(index[Recorded]) \cup {k}
    BY <1>2, <2>1, IndexedRegister
  <2> QED
    BY <2>1, <2>2, <2>3, <2>4
<1>5. ~\E m \in Migrations, limit \in Limits : Batch(m, limit)
  BY DEF Batch
<1>6. \/ Declare \/ Upgrade \/ UNCHANGED vars \/ Abort \/ Clear
      \/ \E m \in Migrations : code >= m.to /\ Begin(m)
      \/ \E k \in Keys : k \notin registered /\ PutUnindexed(k)
      \/ \E k \in Keys : Remove(k)
      \/ \E k \in Keys : Put(k) \/ (version \in Versions /\ RegisterKey(version, k))
  <2>1. RecordInv
    BY DEF ForwardInv
  <2> QED
    BY <1>5, <2>1, ForwardCases
<1> QED
  BY <1>3, <1>4, <1>6, <1>7

(* preflight.rs:150-154, at the recorded version: of the keys that are     *)
(* listed where migrations walk, no step outside a run makes the orphan    *)
(* check fail, and the batch that completes a run makes it pass, whatever  *)
(* runs were aborted before; and the keys that a late declaration stranded *)
(* it always reports.                                                      *)
THEOREM OnlyAbortsOrphan == ForwardSpec => OnlyAnAbortedRunOrphansKeys
<1> DEFINE Kept ==
      /\ mig.status # "Running" /\ KeysAreIndexed(Recorded, Tracked) =>
           KeysAreIndexed(Recorded, Tracked)'
      /\ mig.status = "Running" /\ mig'.status = "Completed" =>
           KeysAreIndexed(Recorded, Tracked)'
      /\ (stranded \subseteq Orphans(Recorded, registered))'
<1>1. ASSUME ForwardInv, [ForwardNext]_vars
      PROVE  Kept
  <2>1. ForwardInv'
    BY <1>1, ForwardInvStep
  <2>2. Recorded \in Versions /\ Recorded' \in Versions
    BY <1>1, <2>1, VersionsAreNat DEF ForwardInv, RecordInv, TypeOK, Recorded
  <2>3. KeysAreIndexed(Recorded, Tracked) <=> Tracked \subseteq Indexed(index[Recorded])
    <3>1. /\ index[Recorded] \in Index /\ Clean(index[Recorded])
          /\ Tracked \subseteq Keys
      BY <1>1, <2>2 DEF ForwardInv, RecordInv, TypeOK, IndexesClean, Tracked
    <3> QED
      BY <3>1, CheckAsksTheIndex DEF KeysAreIndexed, Orphans
  <2>4. /\ index'[Recorded'] \in Index /\ Clean(index'[Recorded'])
        /\ Tracked' \subseteq Keys
        /\ registered' \subseteq Keys /\ stranded' \subseteq registered'
    BY <2>1, <2>2 DEF ForwardInv, RecordInv, TypeOK, IndexesClean, Tracked
  <2>5. KeysAreIndexed(Recorded, Tracked)' <=> Tracked' \subseteq Indexed(index'[Recorded'])
    BY <2>4, CheckAsksTheIndex DEF KeysAreIndexed, Orphans
  <2>6. ASSUME mig.status # "Running", Tracked \subseteq Indexed(index[Recorded])
        PROVE  Tracked' \subseteq Indexed(index'[Recorded'])
    BY <1>1, <2>6, QuietStepsListWhatTheyRegister
  <2>7. ASSUME mig'.status = "Completed"
        PROVE  Tracked' \subseteq Indexed(index'[Recorded'])
    <3>1. Recorded' = mig'.to
      BY <2>1, <2>7, VersionsAreNat DEF ForwardInv, RecordInv, RecordOK, Recorded, NoVersion
    <3> QED
      BY <2>1, <2>7, <3>1 DEF ForwardInv, CompletedListsAll
  <2>8. (stranded \subseteq Orphans(Recorded, registered))'
    <3>1. ASSUME NEW k \in stranded'
          PROVE  ~ContainsKey(index'[Recorded'], k)
      <4>1. Recorded' # INITIAL_VERSION
        BY <2>1, <3>1 DEF ForwardInv, StrandedApart, Recorded
      <4>2. k \notin Indexed(index'[Recorded'])
        BY <2>1, <2>2, <3>1, <4>1 DEF ForwardInv, StrandedApart
      <4> QED
        BY <2>4, <3>1, <4>2, CleanContains
    <3> QED
      BY <2>4, <3>1 DEF Orphans
  <2> QED
    BY <2>3, <2>5, <2>6, <2>7, <2>8
<1>2. ForwardInv /\ [ForwardNext]_vars => [Kept]_vars
  BY <1>1
<1> QED
  BY <1>2, ForwardInvHolds, PTL DEF ForwardSpec, OnlyAnAbortedRunOrphansKeys
=============================================================================
