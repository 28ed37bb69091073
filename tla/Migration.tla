------------------------------ MODULE Migration ------------------------------
(***************************************************************************)
(* One contract instance that uses soroban-migrate: its recorded schema    *)
(* version, the migration record, the key index of every version and its   *)
(* entries, under the executor (executor.rs), the rollback (rollback.rs),  *)
(* the version gate (version.rs) and the write path (store.rs).            *)
(*                                                                         *)
(* Every action is one contract call, hence one transaction: it happens    *)
(* entirely or, when the call returns an error, not at all.  A refused     *)
(* call and a call that answers without writing (begin on a run already in *)
(* flight, batch on a completed one) leave the state alone, so they need   *)
(* no action.  Operators, the live application and deployments interleave  *)
(* between the calls in any order.                                         *)
(*                                                                         *)
(* An entry is abstracted to the schema version of its shape.              *)
(***************************************************************************)
EXTENDS KeyIndex

CONSTANTS
  MaxVersion,   \* the versions are 1 .. MaxVersion
  Migrations,   \* the Migration implementations the builds carry
  Managed,      \* keys whose entries the migrations know how to decode
  Broken,       \* << key, shape >>: entries that make up and down return an error
  MaxBatch,     \* executor::MAX_KEYS_PER_BATCH
  Limits        \* the limits callers pass to batch

Versions == 1 .. MaxVersion

INITIAL_VERSION == 1
NoVersion == 0   \* version::read returned None
Absent == 0      \* no entry under the key

ASSUME MigrationAssumption ==
  /\ MaxVersion \in Nat \ {0}
  /\ Migrations \subseteq [from : Versions, to : Versions, down : BOOLEAN]
  /\ Managed \subseteq Keys
  /\ Broken \subseteq Keys \X Versions
  /\ MaxBatch \in Nat \ {0}
  /\ Limits \subseteq Nat

VARIABLES
  version,     \* MigrationKey::Version
  mig,         \* MigrationKey::State
  index,       \* IndexInfo and IndexPage of every version
  shape,       \* the shape of each entry, or Absent
  code,        \* the version whose shape the deployed build writes
  registered,  \* history: keys put through the store or registered directly
  stranded     \* history: those of them listed under version 1 alone, because
               \* they were registered before a later version was declared

vars == << version, mig, index, shape, code, registered, stranded >>

Statuses == {"None", "Running", "Completed", "RollingBack", "RolledBack"}

NoMigration == [status |-> "None", from |-> 0, to |-> 0, cursor |-> 0, total |-> 0]

TypeOK ==
  /\ version \in Versions \cup {NoVersion}
  /\ mig \in [status : Statuses,
              from : Versions \cup {0}, to : Versions \cup {0},
              cursor : 0 .. MaxLen, total : 0 .. MaxLen]
  /\ index \in [Versions -> Index]
  /\ shape \in [Keys -> Versions \cup {Absent}]
  /\ code \in Versions
  /\ registered \subseteq Keys
  /\ stranded \subseteq registered

(* A contract may predate the framework: its entries may already exist, in *)
(* the shape its build writes, whichever that is, and nothing has indexed  *)
(* them.                                                                   *)
Init ==
  /\ version = NoVersion
  /\ mig = NoMigration
  /\ index = [v \in Versions |-> EmptyIndex]
  /\ code \in Versions
  /\ shape \in [Keys -> {Absent, code}]
  /\ registered = {}
  /\ stranded = {}

-----------------------------------------------------------------------------
(***************************************************************************)
(* Mutants: plausible slips in the definitions that follow.  Only the      *)
(* mutation runs use them.                                                 *)
(***************************************************************************)

\* up tests for the shape it writes instead of the one it reads.
Up_WrongShape(m, ks) ==
  [k \in Keys |-> IF k \in ks \cap Managed /\ shape[k] = m.to
                  THEN m.from ELSE shape[k]]

\* The key count decided at begin is final.
AbsorbedTotal_Pinned(m) == mig.total

\* The cursor advances by what was asked for, not by what was visited.
CursorAfter_Limit(window, limit) == mig.cursor + limit

\* > for >=: the last batch never notices that it is the last.
IsDone_Strict(cursor, total) == cursor > total
IsRolledBack_Strict(cursor, total) == cursor > total

\* The rollback does not look at the index again.
NotOrphaned_Unchecked(m) == TRUE

\* put counts in a u32 without a ceiling.
Put_NoCeiling(k) ==
  LET v == IF mig.status = "Running" THEN mig.to
           ELSE IF version = NoVersion THEN INITIAL_VERSION ELSE version
  IN  /\ shape' = [shape EXCEPT ![k] = code]
      /\ index' = [index EXCEPT ![v] = Register(@, k)]
      /\ registered' = registered \cup {k}
      /\ stranded' = stranded \ {k}
      /\ UNCHANGED << version, mig, code >>

\* begin without the sequence check.
Begin_AnyPair(m) ==
  /\ version = m.from
  /\ mig.status \notin {"Running", "RollingBack"}
  /\ mig' = [status |-> "Running", from |-> m.from, to |-> m.to,
             cursor |-> 0, total |-> index[m.from].len]
  /\ UNCHANGED << version, index, shape, code, registered, stranded >>

\* abort also discards the index the run was filling.
Abort_DropsNewIndex ==
  /\ mig.status \in {"Running", "RollingBack"}
  /\ mig' = NoMigration
  /\ index' = [index EXCEPT ![mig.to] = Reset(@)]
  /\ UNCHANGED << version, shape, code, registered, stranded >>

-----------------------------------------------------------------------------
(* MigrationState::is_active, and the test that the record is m's.         *)
IsActive == mig.status \in {"Running", "RollingBack"}
IsRecordOf(m) == mig.from = m.from /\ mig.to = m.to

(* Migration::up: an entry of the old shape is rewritten; a key that is    *)
(* absent, foreign or of another shape is left alone.  Applying it twice   *)
(* is applying it once, so a window with repeated keys needs no order.     *)
Up(m, ks) ==
  [k \in Keys |-> IF k \in ks \cap Managed /\ shape[k] = m.from
                  THEN m.to ELSE shape[k]]

(* Migration::down. *)
Down(m, ks) ==
  [k \in Keys |-> IF k \in ks \cap Managed /\ shape[k] = m.to
                  THEN m.from ELSE shape[k]]

(* An up or down that returns an error, which reverts the transaction.     *)
Refuses(ks, v) == \E k \in ks : shape[k] = v /\ << k, v >> \in Broken

(* The total of a batch absorbs keys registered since begin.               *)
AbsorbedTotal(m) == Greatest(mig.total, index[m.from].len)

(* The cursor after a batch that visited a window.                         *)
CursorAfter(window, limit) == mig.cursor + Len(window)

(* A batch was the last one of its run, or of its rollback.                *)
IsDone(cursor, total) == cursor >= total
IsRolledBack(cursor, total) == cursor >= total

(* Nothing was registered under the new version since the rollback began.  *)
NotOrphaned(m) == index[m.to].len <= mig.total

(* The order in which a rollback visits a window: newest key first.        *)
NewestFirst(window) == [i \in 1 .. Len(window) |-> window[Len(window) + 1 - i]]

-----------------------------------------------------------------------------
(* What was put before a first version is declared is listed under         *)
(* INITIAL_VERSION (store::current_version), whichever version that is.    *)
StrandedBy(v) == IF v = INITIAL_VERSION THEN stranded ELSE registered

(* version::initialize, on a contract that has no version yet.             *)
Initialize(v) ==
  /\ version = NoVersion
  /\ version' = v
  /\ stranded' = StrandedBy(v)
  /\ UNCHANGED << mig, index, shape, code, registered >>

(* version::adopt. *)
Adopt(v) ==
  /\ ~IsActive
  /\ version' = v
  /\ stranded' = StrandedBy(v)
  /\ UNCHANGED << mig, index, shape, code, registered >>

(* store::current_version. *)
CurrentVersion ==
  IF mig.status = "Running" THEN mig.to
  ELSE IF version = NoVersion THEN INITIAL_VERSION ELSE version

(* store::put. *)
Put(k) ==
  /\ index[CurrentVersion].len < MaxLen
  /\ shape' = [shape EXCEPT ![k] = code]
  /\ index' = [index EXCEPT ![CurrentVersion] = Register(@, k)]
  /\ registered' = registered \cup {k}
  /\ stranded' = stranded \ {k}
  /\ UNCHANGED << version, mig, code >>

(* store::put_unindexed. *)
PutUnindexed(k) ==
  /\ shape' = [shape EXCEPT ![k] = code]
  /\ UNCHANGED << version, mig, index, code, registered, stranded >>

(* index::register called directly, for an entry that was never indexed.   *)
RegisterKey(v, k) ==
  /\ index[v].len < MaxLen
  /\ index' = [index EXCEPT ![v] = Register(@, k)]
  /\ registered' = registered \cup {k}
  /\ stranded' = stranded \ {k}
  /\ UNCHANGED << version, mig, shape, code >>

(* store::remove: the log keeps the key. *)
Remove(k) ==
  /\ shape[k] # Absent
  /\ shape' = [shape EXCEPT ![k] = Absent]
  /\ UNCHANGED << version, mig, index, code, registered, stranded >>

(* A deployment: the fleet tag the instance resolves through moves.        *)
Deploy(v) ==
  /\ v # code
  /\ code' = v
  /\ UNCHANGED << version, mig, index, shape, registered, stranded >>

-----------------------------------------------------------------------------
(* executor::begin, where it writes a new record: the record of a finished *)
(* run of another pair does not block it, one of its own pair does.        *)
Begin(m) ==
  /\ m.to = m.from + 1
  /\ version = m.from
  /\ mig.status # "None" => ~IsRecordOf(m) /\ ~IsActive
  /\ mig' = [status |-> "Running", from |-> m.from, to |-> m.to,
             cursor |-> 0, total |-> index[m.from].len]
  /\ UNCHANGED << version, index, shape, code, registered, stranded >>

(* executor::batch on a running migration: visit the next window of the    *)
(* old index, carry every key of it into the new index whatever up said,   *)
(* move the cursor, absorb the growth of the old index and, when nothing   *)
(* is left, complete and advance the version in the same transaction.      *)
Batch(m, limit) ==
  LET window == RangeOf(index[m.from], mig.cursor, limit)
      cursor == CursorAfter(window, limit)
      total  == AbsorbedTotal(m)
      done   == IsDone(cursor, total)
  IN  /\ limit \in 1 .. MaxBatch
      /\ mig.status = "Running"
      /\ IsRecordOf(m)
      /\ RangeReadable(index[m.from], mig.cursor, limit)
      /\ ~Refuses(KeysOf(window), m.from)
      /\ index[m.to].len + Len(window) <= MaxLen
      /\ shape' = Up(m, KeysOf(window))
      /\ index' = [index EXCEPT ![m.to] = RegisterAll(@, window)]
      /\ mig' = [mig EXCEPT !.cursor = cursor, !.total = total,
                            !.status = IF done THEN "Completed" ELSE @]
      /\ version' = IF done THEN m.to ELSE version
      /\ UNCHANGED << code, registered, stranded >>

(* executor::abort. *)
Abort ==
  /\ IsActive
  /\ mig' = NoMigration
  /\ UNCHANGED << version, index, shape, code, registered, stranded >>

(* executor::clear. *)
Clear ==
  /\ mig.status \in {"Completed", "RolledBack"}
  /\ mig' = NoMigration
  /\ UNCHANGED << version, index, shape, code, registered, stranded >>

-----------------------------------------------------------------------------
(* rollback::begin on a completed migration: pin the length of the new     *)
(* index, discard the old index.                                           *)
RollbackBegin(m) ==
  /\ m.to = m.from + 1
  /\ m.down
  /\ mig.status = "Completed"
  /\ IsRecordOf(m)
  /\ version = m.to
  /\ index' = [index EXCEPT ![m.from] = Reset(@)]
  /\ mig' = [status |-> "RollingBack", from |-> m.from, to |-> m.to,
             cursor |-> 0, total |-> index[m.to].len]
  /\ UNCHANGED << version, shape, code, registered, stranded >>

(* rollback::batch: refuse if the new index grew past the pinned total;    *)
(* otherwise revert its last unvisited window, newest key first, and       *)
(* re-register each key under the old version.                             *)
RollbackBatch(m, limit) ==
  LET end    == Least(mig.cursor + limit, mig.total)
      first  == mig.total - end
      window == RangeOf(index[m.to], first, end - mig.cursor)
      done   == IsRolledBack(end, mig.total)
  IN  /\ limit \in 1 .. MaxBatch
      /\ mig.status = "RollingBack"
      /\ IsRecordOf(m)
      /\ NotOrphaned(m)
      /\ RangeReadable(index[m.to], first, end - mig.cursor)
      /\ ~Refuses(KeysOf(window), m.to)
      /\ index[m.from].len + Len(window) <= MaxLen
      /\ shape' = Down(m, KeysOf(window))
      /\ index' = [index EXCEPT ![m.from] = RegisterAll(@, NewestFirst(window))]
      /\ mig' = [mig EXCEPT !.cursor = end,
                            !.status = IF done THEN "RolledBack" ELSE @]
      /\ version' = IF done THEN m.from ELSE version
      /\ UNCHANGED << code, registered, stranded >>

-----------------------------------------------------------------------------
(***************************************************************************)
(* What surrounds the framework.  The conditions here are not the code's:  *)
(* they are the discipline its documentation asks of its users.            *)
(***************************************************************************)

(* A version is declared once, the one whose shape the entries have        *)
(* (version.rs:74-78), by a fresh deployment or by adopting a live one.    *)
(* The application may have written through the store before.              *)
Declare ==
  /\ version = NoVersion
  /\ Initialize(code) \/ Adopt(code)

(* The live application.  It never writes a key behind the index's back    *)
(* that the index knows (store.rs:58), and it backfills the index with     *)
(* entries of the recorded version's shape, or a newer one.                *)
Application ==
  \E k \in Keys :
    \/ Put(k)
    \/ k \notin registered /\ PutUnindexed(k)
    \/ version # NoVersion /\ shape[k] >= version /\ RegisterKey(version, k)
    \/ Remove(k)

(* A newer build ships at any time, in order, unless the state is already  *)
(* newer than the build (error.rs:125-130).                                *)
Upgrade ==
  /\ version # NoVersion
  /\ version <= code /\ code < MaxVersion
  /\ Deploy(code + 1)

(* A migration is in the build of the version it leads to.                 *)
Forward ==
  \/ \E m \in Migrations : code >= m.to /\ Begin(m)
  \/ \E m \in Migrations, limit \in Limits : Batch(m, limit)
  \/ Abort
  \/ Clear

ForwardNext == Declare \/ Application \/ Upgrade \/ Forward

ForwardSpec == Init /\ [][ForwardNext]_vars

(* The previous build ships once its rollback has begun or is about to.    *)
Downgrade ==
  /\ mig.status \in {"Completed", "RollingBack", "RolledBack"}
  /\ mig.from < code
  /\ Deploy(mig.from)

Backward ==
  \/ \E m \in Migrations : RollbackBegin(m)
  \/ \E m \in Migrations, limit \in Limits : RollbackBatch(m, limit)

Next == ForwardNext \/ Downgrade \/ Backward

Spec == Init /\ [][Next]_vars

(* An operator, or the CLI's run loop, keeps sending batches while a run   *)
(* or a rollback is in flight: the loop retries, and every valid           *)
(* transaction is included some time.  Nobody is obliged to begin, abort,  *)
(* clear, deploy or write anything.                                        *)
FairSpec ==
  /\ Spec
  /\ WF_vars(\E m \in Migrations, limit \in Limits : Batch(m, limit))
  /\ WF_vars(\E m \in Migrations, limit \in Limits : RollbackBatch(m, limit))

-----------------------------------------------------------------------------
(* The version whose index describes the contract's entries.               *)
Recorded == IF version = NoVersion THEN INITIAL_VERSION ELSE version

NextIndexed == IF Recorded < MaxVersion THEN Indexed(index[Recorded + 1]) ELSE {}

(* The registered keys that are listed where migrations walk.              *)
Tracked == registered \ stranded

(* executor.rs:215-219: a registered key "can never fall out of the        *)
(* framework's view".  It is always still ahead of the cursor of the run   *)
(* in flight, or in the index of the recorded version, or in the one the   *)
(* next or current run fills: across batches, writes during a run, aborts, *)
(* restarts and successive migrations, on a contract whose version was     *)
(* declared at any number.  The keys it does not hold of are those that    *)
(* were registered before a later version than the first was declared and  *)
(* never again since (EveryRegisteredKeyIsCarried).                        *)
NoKeyForgotten ==
  Tracked \subseteq
    (IF mig.status = "Running" THEN KeysFrom(index[Recorded], mig.cursor)
     ELSE Indexed(index[Recorded])) \cup NextIndexed

(* executor.rs:163-165 and 232-247: a migration that reports completion    *)
(* has left no tracked entry in an older shape and lists every tracked key *)
(* in the new version's index, whatever was written while it ran.          *)
NothingLeftBehind ==
  mig.status = "Completed" /\ version <= code =>
    \A k \in Tracked :
      /\ k \in Indexed(index[mig.to])
      /\ k \in Managed /\ shape[k] # Absent => shape[k] >= mig.to

(* executor.rs:215-219, of every registered key, those put before a        *)
(* version was declared too: store.rs:67-71 calls the fallback they are    *)
(* listed under "the only sensible answer" for such a write.               *)
EveryRegisteredKeyIsCarried ==
  mig.status = "Completed" => registered \subseteq Indexed(index[mig.to])

(* store.rs:14-18: the index cannot get out of step with the data: an      *)
(* entry listed under a version is never of an older shape than it.        *)
IndexMatchesShapes ==
  \A v \in Versions :
    \A k \in Indexed(index[v]) \cap Managed :
      shape[k] = Absent \/ shape[k] >= v

(* migration.rs:40-45, executor.rs:230-238: the cursor counts keys that    *)
(* were visited and carried into the new index, never more than the total, *)
(* and the total never more than the old index holds.                      *)
CursorCountsCarriedKeys ==
  mig.status \in {"Running", "Completed"} =>
    /\ mig.cursor <= mig.total
    /\ mig.total <= index[mig.from].len
    /\ KeysBelow(index[mig.from], mig.cursor) \subseteq Indexed(index[mig.to])

(* executor.rs:243-246 and rollback.rs:171-177: once declared, the version *)
(* moves by one, only in the transaction that visits the last key of the   *)
(* index being walked, in the direction of the walk.                       *)
VersionMovesWithTheLastKey ==
  [][version \notin {NoVersion, version'} =>
       \/ /\ mig.status = "Running" /\ mig'.status = "Completed"
          /\ version' = version + 1
          /\ mig'.cursor >= index'[version].len
       \/ /\ mig.status = "RollingBack" /\ mig'.status = "RolledBack"
          /\ version' = version - 1
          /\ mig'.cursor >= index'[version].len]_vars

(* rollback.rs:9-17 and 106-113: a rollback that reports success leaves no *)
(* entry of the new index in the new shape: keys written meanwhile make it *)
(* fail instead.                                                           *)
RollbackRevertsEverything ==
  [][mig.status = "RollingBack" /\ mig'.status = "RolledBack" =>
       \A k \in Indexed(index'[mig.to]) \cap Managed : shape'[k] # mig.to]_vars

(* executor.rs:303-306: after an abort, a later begin of the same          *)
(* migration starts from zero, that is: it is not refused.                 *)
AbortLeavesBeginPossible ==
  [][IsActive /\ mig' = NoMigration => version' = mig.from]_vars

(* executor.rs:232-247: a run in flight ends, with completion or an abort, *)
(* however the live contract registers keys meanwhile; only an index at    *)
(* its ceiling, or an up that goes on refusing an entry, stops it.         *)
MigrationFinishes ==
  mig.status = "Running" ~>
    \/ mig.status # "Running"
    \/ index[mig.to].len = MaxLen
    \/ Refuses(registered, mig.from)

(* rollback.rs:9-17: a rollback ends too, unless a key was registered      *)
(* under the new version after it began (OrphanedEntries).                 *)
RollbackFinishes ==
  mig.status = "RollingBack" ~>
    \/ mig.status # "RollingBack"
    \/ ~NotOrphaned(mig)
    \/ index[mig.from].len = MaxLen
    \/ Refuses(registered, mig.to)

(* The record, the version and the lengths of the indexes behave as the    *)
(* Lifecycle says, whatever the keys and the shapes of their entries are.  *)
Life == INSTANCE Lifecycle WITH len <- [v \in Versions |-> index[v].len]
ImplementsLifecycle == Life!LifeSpec
=============================================================================
