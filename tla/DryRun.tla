------------------------------- MODULE DryRun -------------------------------
(***************************************************************************)
(* `soroban-migrate dry-run` (commands/dry_run.rs): a snapshot of the      *)
(* ledger is loaded into a local host, where the contract begins the       *)
(* migration and runs batch after batch.  Nothing is written back; what    *)
(* comes of it is how many batches the migration needs, or, when it is     *)
(* stopped by --max-batches, that it needs more than so many.              *)
(*                                                                         *)
(* The fork is a copy of the contract's state, so a replay is a function   *)
(* of the state its snapshot was taken in.  That the contract is the same  *)
(* is the point of the property at the end: drivers and users then act on  *)
(* the ledger itself.  What a batch costs is left out.                     *)
(***************************************************************************)
EXTENDS RunDriver

-----------------------------------------------------------------------------
(* Mutant: the replay starts from the first key, whatever was migrated.    *)
ReplayFrom_Restarts == 0

(* The replay's first call begins the migration, or resumes it             *)
(* (ForkedContract::call).  begin_migration and migrate_batch panic in the *)
(* host when the contract refuses them, which ends the command.            *)
CanReplay(limit) ==
  /\ Upgradeable
  /\ CanBegin(Target) \/ Resumes
  /\ limit \in 1 .. MaxBatch

ReplayFrom == IF mig.status = "Running" THEN mig.cursor ELSE 0
ReplayTotal == IF mig.status = "Running" THEN Greatest(mig.total, len[Target.from])
               ELSE len[Target.from]

(* The cursor after each call.  Nobody else acts on the fork, so that the  *)
(* cursor is all that moves on it.                                         *)
ReplayCursors(limit) ==
  LET cursor[k \in 0 .. MaxBatches] ==
        IF k = 0 THEN ReplayFrom
        ELSE cursor[k - 1] + WindowLen(len[Target.from], cursor[k - 1], limit)
  IN cursor

(* The loop of replay: calls, up to one that is done or the max_batches-th.*)
DoneCalls(limit) ==
  LET cursor == ReplayCursors(limit)
  IN { k \in 1 .. MaxBatches : Done(cursor[k], ReplayTotal) }
Completes(limit) == DoneCalls(limit) # {}
Batches(limit) ==
  LET done == DoneCalls(limit)
  IN IF done = {} THEN MaxBatches ELSE CHOOSE k \in done : \A j \in done : k <= j
Stalls(limit) ==
  LET cursor == ReplayCursors(limit)
  IN \E k \in 1 .. Batches(limit) :
       k \notin DoneCalls(limit) /\ cursor[k] = cursor[k - 1]

(* How many transactions so many entries take, at the least.               *)
TransactionsNeeded(entries, limit) == Greatest((entries + limit - 1) \div limit, 1)

(* The numbers of transactions the report names: the calls that were made, *)
(* twice, and after a replay that completes what all the entries take,     *)
(* those an earlier run has migrated included (print_report).              *)
Reported(limit) ==
  {Batches(limit)} \cup
    (IF Completes(limit) /\ ReplayTotal > 0
     THEN {TransactionsNeeded(ReplayTotal, limit)} ELSE {})

-----------------------------------------------------------------------------
(* dry_run.rs:161-182, 276-306: what a replay says of the transactions to  *)
(* come.  Taken at any time, with a migration not yet begun or in flight,  *)
(* in the middle of other operators' runs, late calls and rollbacks, it    *)
(* never stalls.  The count of one that reaches the end is exact: each     *)
(* batch leaves one less to send and the last completes.  One that stopped *)
(* at --max-batches has counted too few: no batch sent next completes, and *)
(* after it as many as were counted are still missing, though the report   *)
(* prints of it too that the migration "needs" that many.  Beginning       *)
(* changes nothing about either, and until then the two numbers of the     *)
(* report agree; a key that is registered costs one batch at the most.     *)
ReplayPredicts ==
  [][lifeVars' # lifeVars /\ CanReplay(1) =>
       \/ mig' = NoMigration
       \/ /\ mig' = mig
          /\ \A limit \in 1 .. MaxBatch :
               /\ Batches(limit)' \in {Batches(limit), Batches(limit) + 1}
               /\ Completes(limit)' => Completes(limit)
       \/ /\ mig.status # "Running" /\ mig'.status = "Running"
          /\ \A limit \in 1 .. MaxBatch :
               /\ Completes(limit)' = Completes(limit) /\ Batches(limit)' = Batches(limit)
               /\ Reported(limit) = {Batches(limit)}
       \/ /\ mig.status = "Running"
          /\ \E limit \in 1 .. MaxBatch :
               /\ Batch(Target, limit)
               /\ ~Stalls(limit)
               /\ IF mig'.status = "Completed" THEN Completes(limit) /\ Batches(limit) = 1
                  ELSE IF Completes(limit)
                  THEN Completes(limit)' /\ Batches(limit)' = Batches(limit) - 1
                  ELSE Batches(limit)' = MaxBatches]_lifeVars
=============================================================================
