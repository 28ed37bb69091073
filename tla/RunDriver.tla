----------------------------- MODULE RunDriver -----------------------------
(***************************************************************************)
(* Operators driving a migration with `soroban-migrate run --submit`       *)
(* (commands/run.rs), each invocation a child process with a deadline      *)
(* (stellar.rs), against a contract whose entry points are the vault's.    *)
(*                                                                         *)
(* A run asks for the status, begins unless a migration is active, then    *)
(* sends batches.  Between any two of these steps other operators, users   *)
(* of the contract and manual calls act on it.  An invocation is answered  *)
(* in two steps, because much can happen between its execution on the      *)
(* ledger and the driver reading its output.  When the deadline passes the *)
(* child is killed and the run ends, but the call "may still have been     *)
(* submitted": it stays in `late` and may be executed at any later time,   *)
(* or never.                                                               *)
(*                                                                         *)
(* Without --submit a run changes nothing; it is left out.                 *)
(***************************************************************************)
EXTENDS Lifecycle

CONSTANTS
  Operators,
  Target,       \* the migration of the contract's build
  MaxBatches    \* --max-batches

ASSUME RunDriverAssumption ==
  /\ Target \in Migrations
  /\ MaxBatches \in Nat \ {0}

VARIABLES
  run,      \* each operator's run: where it is, its arguments, its batch count
  reply,    \* the output of its invocation, executed and not yet read
  late,     \* its call that missed the deadline and may still be executed
  report    \* how its last run ended

driverVars == << run, reply, late, report >>
vars == << lifeVars, driverVars >>

Stages == {"idle", "status", "begin", "batch"}

Idle == [at |-> "idle", limit |-> 0, skip_begin |-> FALSE, batches |-> 0]

(* What an invocation prints: an error, the state begin returns, or the    *)
(* outcome of a batch (BatchOutcomeView).                                  *)
NoReply == [kind |-> "none", visited |-> 0, done |-> FALSE]
Failed == [NoReply EXCEPT !.kind = "error"]
Begun == [NoReply EXCEPT !.kind = "state"]
Outcome(visited, done) == [kind |-> "outcome", visited |-> visited, done |-> done]

(* The calls a run submits. *)
NoCall == [fn |-> "none", limit |-> 0]
CallOf(o) ==
  [fn |-> run[o].at, limit |-> IF run[o].at = "batch" THEN run[o].limit ELSE 0]

(* How a run ends: complete and stopped are Ok, the others errors.         *)
Reports == {"none", "complete", "stopped", "refused", "stalled", "network"}

TypeOK ==
  /\ LifeTypeOK
  /\ run \in [Operators -> [at : Stages, limit : Limits \cup {0},
                            skip_begin : BOOLEAN, batches : 0 .. MaxBatches]]
  /\ reply \in [Operators -> [kind : {"none", "error", "state", "outcome"},
                              visited : 0 .. MaxBatch, done : BOOLEAN]]
  /\ late \in [Operators -> [fn : {"none", "begin", "batch"}, limit : Limits \cup {0}]]
  /\ report \in [Operators -> Reports]

Init ==
  /\ LifeInit
  /\ run = [o \in Operators |-> Idle]
  /\ reply = [o \in Operators |-> NoReply]
  /\ late = [o \in Operators |-> NoCall]
  /\ report = [o \in Operators |-> "none"]

-----------------------------------------------------------------------------
(* Mutants: plausible slips in the definitions that follow.                *)

\* A finished record is answered as done whichever way it finished.
IsFinished_AnyWay == IsRecordOf(Target) /\ mig.status \in {"Completed", "RolledBack"}

\* A failed batch is sent again instead of ending the run.
AfterFailure_Retry(o) == [run EXCEPT ![o] = @]

-----------------------------------------------------------------------------
(* The contract's entry points.                                            *)

(* preflight::assert_upgradeable.                                          *)
Upgradeable ==
  /\ version = Target.from
  /\ IsActive => IsRecordOf(Target)
  /\ ~IsActive => len[Target.from] > 0

(* executor::begin answering with the run already in flight.               *)
Resumes == version = Target.from /\ IsRecordOf(Target) /\ mig.status = "Running"

(* executor::batch answering with finished_outcome.                        *)
IsFinished == IsRecordOf(Target) /\ mig.status = "Completed"

(* begin_migration, and what it answers.                                   *)
BeginCall(answer) ==
  \/ Upgradeable /\ Begin(Target) /\ answer = Begun
  \/ Upgradeable /\ Resumes /\ answer = Begun /\ UNCHANGED lifeVars
  \/ answer = Failed /\ UNCHANGED lifeVars

(* migrate_batch, and what it answers.  Either call may fail for reasons   *)
(* that are not modelled, such as an `up` that refuses an entry or a fee.  *)
BatchCall(limit, answer) ==
  \/ /\ Batch(Target, limit)
     /\ answer = Outcome(mig'.cursor - mig.cursor, mig'.status = "Completed")
  \/ IsFinished /\ answer = Outcome(0, TRUE) /\ UNCHANGED lifeVars
  \/ answer = Failed /\ UNCHANGED lifeVars

-----------------------------------------------------------------------------
(* The driver.                                                             *)

(* The run of operator o is over.                                          *)
End(o, how) ==
  /\ run' = [run EXCEPT ![o] = Idle]
  /\ reply' = [reply EXCEPT ![o] = NoReply]
  /\ report' = [report EXCEPT ![o] = how]

(* The arguments run accepts.                                              *)
LimitAllowed(limit) == limit # 0 /\ limit <= MaxBatch

Start(o) ==
  /\ run[o].at = "idle"
  /\ \E limit \in Limits, skip \in BOOLEAN :
       /\ LimitAllowed(limit)
       /\ run' = [run EXCEPT ![o] = [at |-> "status", limit |-> limit,
                                     skip_begin |-> skip, batches |-> 0]]
  /\ report' = [report EXCEPT ![o] = "none"]
  /\ UNCHANGED << lifeVars, reply, late >>

(* The status query is a simulation: it reads the ledger as it is.  Active *)
(* is Running or RollingBack (MigrationStatusView::parse).                 *)
QueryStatus(o) ==
  /\ run[o].at = "status"
  /\ \/ IsActive /\ run' = [run EXCEPT ![o].at = "batch"] /\ UNCHANGED << reply, report >>
     \/ ~IsActive /\ run[o].skip_begin /\ End(o, "refused")
     \/ /\ ~IsActive /\ ~run[o].skip_begin
        /\ run' = [run EXCEPT ![o].at = "begin"]
        /\ UNCHANGED << reply, report >>
  /\ UNCHANGED << lifeVars, late >>

(* The submitted call is executed, or rejected, within the deadline.       *)
ExecuteBegin(o) ==
  /\ run[o].at = "begin" /\ reply[o] = NoReply
  /\ \E answer \in {Begun, Failed} :
       /\ BeginCall(answer)
       /\ reply' = [reply EXCEPT ![o] = answer]
  /\ UNCHANGED << run, late, report >>

ExecuteBatch(o) ==
  /\ run[o].at = "batch" /\ reply[o] = NoReply
  /\ \E visited \in 0 .. MaxBatch, done \in BOOLEAN :
       \E answer \in {Outcome(visited, done), Failed} :
         /\ BatchCall(run[o].limit, answer)
         /\ reply' = [reply EXCEPT ![o] = answer]
  /\ UNCHANGED << run, late, report >>

ReadState(o) ==
  /\ run[o].at = "begin" /\ reply[o].kind = "state"
  /\ run' = [run EXCEPT ![o].at = "batch"]
  /\ reply' = [reply EXCEPT ![o] = NoReply]
  /\ UNCHANGED << lifeVars, late, report >>

(* BatchOutcomeView::is_stall.                                             *)
IsStall(r) == r.kind = "outcome" /\ r.visited = 0 /\ ~r.done

(* One turn of the loop, up to the batch it sends next.                    *)
ReadOutcome(o) ==
  /\ run[o].at = "batch" /\ reply[o].kind = "outcome"
  /\ \/ IsStall(reply[o]) /\ End(o, "stalled")
     \/ ~IsStall(reply[o]) /\ reply[o].done /\ End(o, "complete")
     \/ /\ ~IsStall(reply[o]) /\ ~reply[o].done
        /\ run[o].batches + 1 >= MaxBatches /\ End(o, "stopped")
     \/ /\ ~IsStall(reply[o]) /\ ~reply[o].done
        /\ run[o].batches + 1 < MaxBatches
        /\ run' = [run EXCEPT ![o].batches = @ + 1]
        /\ reply' = [reply EXCEPT ![o] = NoReply]
        /\ UNCHANGED report
  /\ UNCHANGED << lifeVars, late >>

(* A failed invocation ends the run.                                       *)
AfterFailure(o) == [run EXCEPT ![o] = Idle]

ReadFailure(o) ==
  /\ reply[o].kind = "error"
  /\ run' = AfterFailure(o)
  /\ reply' = [reply EXCEPT ![o] = NoReply]
  /\ report' = [report EXCEPT ![o] = "network"]
  /\ UNCHANGED << lifeVars, late >>

(* The deadline passes: nothing was submitted yet by a status query; a     *)
(* call may have been executed already, or may still be.                   *)
TimeOut(o) ==
  /\ run[o].at # "idle"
  /\ End(o, "network")
  /\ \/ late' = late
     \/ /\ run[o].at \in {"begin", "batch"} /\ reply[o] = NoReply
        /\ late' = [late EXCEPT ![o] = CallOf(o)]
  /\ UNCHANGED lifeVars

(* A late call is executed, and nobody reads the answer, or it is dropped. *)
ExecuteLate(o) ==
  /\ late[o] # NoCall
  /\ \/ late[o].fn = "begin" /\ \E answer \in {Begun, Failed} : BeginCall(answer)
     \/ /\ late[o].fn = "batch"
        /\ \E visited \in 0 .. MaxBatch, done \in BOOLEAN :
             \E answer \in {Outcome(visited, done), Failed} : BatchCall(late[o].limit, answer)
  /\ late' = [late EXCEPT ![o] = NoCall]
  /\ UNCHANGED << run, reply, report >>

DriverStep(o) ==
  \/ Start(o) \/ QueryStatus(o) \/ ExecuteBegin(o) \/ ExecuteBatch(o)
  \/ ReadState(o) \/ ReadOutcome(o) \/ ReadFailure(o) \/ TimeOut(o) \/ ExecuteLate(o)

(* Users of the contract, and calls made by hand: abort_migration,         *)
(* confirm_migration, begin_rollback and rollback_batch.                   *)
Others ==
  /\ \/ Declare \/ Register \/ Abort \/ Clear \/ RollbackBegin(Target)
     \/ \E limit \in Limits : RollbackBatch(Target, limit)
  /\ UNCHANGED driverVars

Next == Others \/ \E o \in Operators : DriverStep(o)

Spec == Init /\ [][Next]_vars

(* A run in progress goes on: its child process answers or is killed at    *)
(* the deadline.                                                           *)
Proceed(o) ==
  \/ QueryStatus(o) \/ ExecuteBegin(o) \/ ExecuteBatch(o)
  \/ ReadState(o) \/ ReadOutcome(o) \/ ReadFailure(o) \/ TimeOut(o)

(* A batch that a run submitted does its work.                             *)
Advance(o) == ExecuteBatch(o) /\ lifeVars' # lifeVars

(* Operators run the command again whenever it has ended, and the network  *)
(* does not fail every query and every batch for ever.                     *)
FairSpec ==
  /\ Spec
  /\ \A o \in Operators :
       /\ WF_vars(Start(o)) /\ WF_vars(Proceed(o))
       /\ SF_vars(QueryStatus(o)) /\ SF_vars(Advance(o))

-----------------------------------------------------------------------------
(* batch.rs:64-73, run.rs:22-27: a batch that visits nothing without       *)
(* finishing would mean a pinned cursor: whatever runs, late calls, aborts *)
(* and rollbacks interleave, no driver ever sees one.                      *)
NeverStalls == \A o \in Operators : ~IsStall(reply[o])

(* run.rs:148-155: "migration complete ... the contract now reports v{to}":*)
(* a batch is answered with done only by a contract at the new version.    *)
DoneAnswersAreTrue ==
  [][\A o \in Operators :
       reply'[o].done /\ reply'[o] # reply[o] => version' = Target.to]_vars

(* executor.rs:109-114: an operator unsure whether a call landed may call  *)
(* begin again: neither that, nor a late begin, loses progress of a run.   *)
ResumingKeepsProgress ==
  [][mig.status = "Running" /\ mig'.status = "Running" =>
       mig'.cursor >= mig.cursor /\ mig'.total >= mig.total]_vars

(* batch.rs:141-142, executor.rs:135-140: a run that took a rollback for   *)
(* its own, its batches and late calls never touch the contract.  A call   *)
(* made by hand takes the rollback on, or abandons it; users register keys *)
(* meanwhile, in the walked index too (the case rollback.rs:135-145 later  *)
(* refuses as OrphanedEntries), but no index loses a position, and the     *)
(* batches themselves leave the walked one as it is.                       *)
RollbackGoesOn ==
  /\ mig'.status \in {"RollingBack", "RolledBack"}
  /\ mig'.from = mig.from /\ mig'.to = mig.to /\ mig'.total = mig.total
  /\ mig'.cursor >= mig.cursor
  /\ len'[mig.to] = len[mig.to]
  /\ version' = IF mig'.status = "RolledBack" THEN mig.from ELSE version

RollbackIsLeftAlone ==
  [][mig.status = "RollingBack" =>
       /\ driverVars' # driverVars => UNCHANGED lifeVars
       /\ \/ RollbackGoesOn
          \/ /\ mig' \in {mig, NoMigration}
             /\ version' = version
             /\ \A v \in Versions : len'[v] >= len[v]]_vars

(* run.rs:20-27: every run ends by itself.                                 *)
EveryRunEnds ==
  \A o \in Operators : run[o].at # "idle" ~> run[o].at = "idle"

(* run.rs:7-11: the cursor is on chain, so a migration is finished by      *)
(* whoever goes on running the command, however many of their runs time    *)
(* out or stop; only an index at its ceiling is in the way.                *)
MigrationFinishes ==
  mig.status = "Running" ~> mig.status # "Running" \/ len[mig.to] = MaxLen
=============================================================================
