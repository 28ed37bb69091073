-------------------------- MODULE RunDriverProofs --------------------------
(***************************************************************************)
(* Theorems of RunDriver and of the replay in DryRun, for every set of     *)
(* operators, run length, ceiling and batch limit.  Whatever drivers, late *)
(* calls, users and manual calls do, the contract lives the Lifecycle; the *)
(* rest follows from the invariant of that.                                *)
(***************************************************************************)
EXTENDS DryRun, LifecycleProofs, WellFoundedInduction

(* The driven migration is one of those carried; limits are numbers.       *)
LEMMA TargetType ==
  /\ Target \in Migrations
  /\ Limits \cup {0} \subseteq Nat
BY LifecycleAssumption, RunDriverAssumption

(* A begin submitted by anybody is a step of the record's life.            *)
LEMMA BeginCallLives ==
  ASSUME NEW answer, BeginCall(answer)
  PROVE  [LifeNext]_lifeVars
BY TargetType DEF BeginCall, LifeNext

(* So is a batch, whose limit batch itself checks.                         *)
LEMMA BatchCallLives ==
  ASSUME NEW limit \in Limits \cup {0}, NEW answer, BatchCall(limit, answer)
  PROVE  [LifeNext]_lifeVars
<1>1. CASE Batch(Target, limit)
  <2>1. limit \in Limits
    <3>1. limit \in 1 .. MaxBatch
      BY <1>1 DEF Batch, CanBatch
    <3> QED
      BY <3>1, LifecycleAssumption
  <2> QED
    BY <1>1, <2>1, TargetType DEF LifeNext
<1> QED
  BY <1>1 DEF BatchCall

(* Every step is one of the record's life.                                 *)
LEMMA StepLives ==
  ASSUME TypeOK, [Next]_vars
  PROVE  [LifeNext]_lifeVars
<1>1. CASE Others
  BY <1>1, TargetType DEF Others, LifeNext
<1>2. ASSUME NEW o \in Operators, DriverStep(o)
      PROVE  [LifeNext]_lifeVars
  <2>1. CASE ExecuteBegin(o)
    BY <2>1, BeginCallLives DEF ExecuteBegin
  <2>2. CASE ExecuteBatch(o)
    <3>1. run[o].limit \in Limits \cup {0}
      BY DEF TypeOK
    <3> QED
      BY <2>2, <3>1, BatchCallLives DEF ExecuteBatch
  <2>3. CASE ExecuteLate(o)
    <3>1. late[o].limit \in Limits \cup {0}
      BY DEF TypeOK
    <3> QED
      BY <2>3, <3>1, BeginCallLives, BatchCallLives DEF ExecuteLate
  <2> QED
    BY <1>2, <2>1, <2>2, <2>3
       DEF DriverStep, Start, QueryStatus, ReadState, ReadOutcome, ReadFailure, TimeOut
<1> QED
  BY <1>1, <1>2 DEF Next, vars

(* What a batch answers: a stall never, and done only at the new version.  *)
LEMMA BatchAnswers ==
  ASSUME LifeInv, NEW limit \in Nat, NEW answer, BatchCall(limit, answer)
  PROVE  ~IsStall(answer) /\ (answer.done => version' = Target.to)
<1>1. CASE Batch(Target, limit) /\ answer = Outcome(mig'.cursor - mig.cursor,
                                                    mig'.status = "Completed")
  <2>1. PICK n \in 0 .. MaxBatch :
          /\ n = 0 => mig.cursor >= len[Target.from]
          /\ mig' = [status |-> IF mig.cursor + n >= len[Target.from]
                                THEN "Completed" ELSE "Running",
                     from |-> Target.from, to |-> Target.to,
                     cursor |-> mig.cursor + n, total |-> len[Target.from]]
          /\ version' = IF mig.cursor + n >= len[Target.from] THEN Target.to ELSE version
    BY <1>1, TargetType, BatchStep
  <2>2. mig.cursor \in Int /\ n \in Int
    BY LifecycleAssumption DEF LifeInv, LifeTypeOK
  <2>3. mig'.cursor - mig.cursor = n
    BY <2>1, <2>2
  <2>4. answer.visited = n /\ answer.done = (mig'.status = "Completed")
    BY <1>1, <2>3 DEF Outcome
  <2>5. n = 0 => mig'.status = "Completed"
    BY <2>1, <2>2
  <2>6. mig'.status = "Completed" => version' = Target.to
    BY <2>1
  <2> QED
    BY <2>4, <2>5, <2>6 DEF IsStall
<1>2. CASE IsFinished /\ answer = Outcome(0, TRUE) /\ UNCHANGED lifeVars
  BY <1>2 DEF IsFinished, IsRecordOf, Outcome, IsStall, lifeVars,
              LifeInv, RecordMatchesVersion
<1>3. CASE answer = Failed
  BY <1>3 DEF Failed, NoReply, IsStall
<1> QED
  BY <1>1, <1>2, <1>3 DEF BatchCall

-----------------------------------------------------------------------------
(* The types of the drivers' state.                                        *)
DriverTypeOK ==
  /\ run \in [Operators -> [at : Stages, limit : Limits \cup {0},
                            skip_begin : BOOLEAN, batches : 0 .. MaxBatches]]
  /\ reply \in [Operators -> [kind : {"none", "error", "state", "outcome"},
                              visited : 0 .. MaxBatch, done : BOOLEAN]]
  /\ late \in [Operators -> [fn : {"none", "begin", "batch"}, limit : Limits \cup {0}]]
  /\ report \in [Operators -> Reports]

(* Idle, NoReply and the other values written have their types.            *)
LEMMA ValueTypes ==
  /\ Idle \in [at : Stages, limit : Limits \cup {0},
               skip_begin : BOOLEAN, batches : 0 .. MaxBatches]
  /\ {NoReply, Failed, Begun} \subseteq
       [kind : {"none", "error", "state", "outcome"},
        visited : 0 .. MaxBatch, done : BOOLEAN]
  /\ \A visited \in 0 .. MaxBatch, done \in BOOLEAN :
       Outcome(visited, done) \in
         [kind : {"none", "error", "state", "outcome"},
          visited : 0 .. MaxBatch, done : BOOLEAN]
  /\ NoCall \in [fn : {"none", "begin", "batch"}, limit : Limits \cup {0}]
<1>1. 0 \in 0 .. MaxBatch /\ 0 \in 0 .. MaxBatches
  BY LifecycleAssumption, RunDriverAssumption
<1>2. NoReply \in [kind : {"none", "error", "state", "outcome"},
                   visited : 0 .. MaxBatch, done : BOOLEAN]
  BY <1>1 DEF NoReply
<1>3. {Failed, Begun} \subseteq [kind : {"none", "error", "state", "outcome"},
                                 visited : 0 .. MaxBatch, done : BOOLEAN]
  BY <1>1 DEF Failed, Begun, NoReply
<1> QED
  BY <1>1, <1>2, <1>3 DEF Idle, Stages, Outcome, NoCall

(* The end of a run keeps the types.                                       *)
LEMMA EndTypes ==
  ASSUME DriverTypeOK, NEW o \in Operators, NEW how \in Reports, End(o, how)
  PROVE  DriverTypeOK' \/ late' # late
BY ValueTypes DEF End, DriverTypeOK

(* Every step keeps the types of the drivers' variables.                   *)
LEMMA DriverTypeStep ==
  ASSUME DriverTypeOK, [Next]_vars
  PROVE  DriverTypeOK'
<1> USE ValueTypes
<1>1. CASE UNCHANGED driverVars
  BY <1>1 DEF driverVars, DriverTypeOK
<1>2. ASSUME NEW o \in Operators, DriverStep(o)
      PROVE  DriverTypeOK'
  <2>1. CASE Start(o)
    <3>1. PICK limit \in Limits, skip \in BOOLEAN :
            run' = [run EXCEPT ![o] = [at |-> "status", limit |-> limit,
                                       skip_begin |-> skip, batches |-> 0]]
      BY <2>1 DEF Start
    <3>2. [at |-> "status", limit |-> limit, skip_begin |-> skip, batches |-> 0]
            \in [at : Stages, limit : Limits \cup {0},
                 skip_begin : BOOLEAN, batches : 0 .. MaxBatches]
      BY RunDriverAssumption DEF Stages
    <3>3. report' = [report EXCEPT ![o] = "none"] /\ UNCHANGED << reply, late >>
      BY <2>1 DEF Start
    <3> QED
      BY <3>1, <3>2, <3>3 DEF DriverTypeOK, Reports
  <2>2. CASE QueryStatus(o)
    <3>1. UNCHANGED late
      BY <2>2 DEF QueryStatus
    <3>2. CASE End(o, "refused")
      BY <3>1, <3>2, EndTypes DEF Reports
    <3>3. CASE /\ \E stage \in {"begin", "batch"} : run' = [run EXCEPT ![o].at = stage]
               /\ UNCHANGED << reply, report >>
      <4>1. PICK stage \in Stages : run' = [run EXCEPT ![o].at = stage]
        BY <3>3 DEF Stages
      <4>2. run' \in [Operators -> [at : Stages, limit : Limits \cup {0},
                                    skip_begin : BOOLEAN, batches : 0 .. MaxBatches]]
        BY <4>1 DEF DriverTypeOK
      <4> QED
        BY <3>1, <3>3, <4>2 DEF DriverTypeOK
    <3> QED
      BY <2>2, <3>2, <3>3 DEF QueryStatus
  <2>3. CASE ExecuteBegin(o) \/ ExecuteBatch(o)
    <3>1. PICK answer \in [kind : {"none", "error", "state", "outcome"},
                           visited : 0 .. MaxBatch, done : BOOLEAN] :
            reply' = [reply EXCEPT ![o] = answer]
      BY <2>3 DEF ExecuteBegin, ExecuteBatch
    <3>2. UNCHANGED << run, late, report >>
      BY <2>3 DEF ExecuteBegin, ExecuteBatch
    <3> QED
      BY <3>1, <3>2 DEF DriverTypeOK
  <2>4. CASE ReadState(o)
    BY <2>4 DEF ReadState, DriverTypeOK, Stages
  <2>5. CASE ReadOutcome(o)
    <3>1. UNCHANGED late
      BY <2>5 DEF ReadOutcome
    <3>2. CASE \E how \in {"stalled", "complete", "stopped"} : End(o, how)
      BY <3>1, <3>2, EndTypes DEF Reports
    <3>3. CASE /\ run[o].batches + 1 < MaxBatches
               /\ run' = [run EXCEPT ![o].batches = @ + 1]
               /\ reply' = [reply EXCEPT ![o] = NoReply]
               /\ UNCHANGED report
      <4>1. run[o].batches \in 0 .. MaxBatches
        BY DEF DriverTypeOK
      <4>2. run[o].batches + 1 \in 0 .. MaxBatches
        BY <3>3, <4>1, RunDriverAssumption
      <4> QED
        BY <3>1, <3>3, <4>2 DEF DriverTypeOK
    <3> QED
      BY <2>5, <3>2, <3>3 DEF ReadOutcome
  <2>6. CASE ReadFailure(o)
    BY <2>6 DEF ReadFailure, AfterFailure, DriverTypeOK, Reports
  <2>7. CASE TimeOut(o)
    <3>1. CASE late' = late
      BY <2>7, <3>1, EndTypes DEF TimeOut, Reports
    <3>2. CASE run[o].at \in {"begin", "batch"} /\ late' = [late EXCEPT ![o] = CallOf(o)]
      <4>1. CallOf(o) \in [fn : {"none", "begin", "batch"}, limit : Limits \cup {0}]
        BY <3>2 DEF CallOf, DriverTypeOK
      <4> QED
        BY <2>7, <3>2, <4>1 DEF TimeOut, End, DriverTypeOK, Reports
    <3> QED
      BY <2>7, <3>1, <3>2 DEF TimeOut
  <2>8. CASE ExecuteLate(o)
    BY <2>8 DEF ExecuteLate, DriverTypeOK
  <2> QED
    BY <1>2, <2>1, <2>2, <2>3, <2>4, <2>5, <2>6, <2>7, <2>8 DEF DriverStep
<1> QED
  BY <1>1, <1>2 DEF Next, Others, vars

-----------------------------------------------------------------------------
DriverInv == DriverTypeOK /\ LifeInv /\ NeverStalls

(* TypeOK is the drivers' types and the contract's.                        *)
LEMMA TypeOfDriverInv == DriverTypeOK /\ LifeInv => TypeOK
BY DEF DriverTypeOK, LifeInv, TypeOK

(* DriverInv holds initially.                                              *)
LEMMA DriverInvInit == Init => DriverInv
<1> SUFFICES ASSUME Init PROVE DriverInv
  OBVIOUS
<1>1. DriverTypeOK
  BY ValueTypes DEF Init, DriverTypeOK, Reports
<1>2. NeverStalls
  BY DEF Init, NeverStalls, NoReply, IsStall
<1> QED
  BY <1>1, <1>2, LifeInvInit DEF Init, DriverInv

(* No step makes a driver's reply a stall.                                 *)
LEMMA NeverStallsStep ==
  ASSUME DriverInv, [Next]_vars
  PROVE  NeverStalls'
<1> USE DEF DriverInv
<1>1. CASE UNCHANGED reply
  BY <1>1 DEF NeverStalls
<1>2. ASSUME NEW o \in Operators, DriverStep(o)
      PROVE  NeverStalls'
  <2>1. ~IsStall(NoReply) /\ ~IsStall(Failed) /\ ~IsStall(Begun)
    BY DEF NoReply, Failed, Begun, IsStall
  <2>2. CASE ExecuteBegin(o)
    BY <2>1, <2>2 DEF ExecuteBegin, NeverStalls, DriverTypeOK
  <2>3. CASE ExecuteBatch(o)
    <3>1. run[o].limit \in Nat
      <4>1. run[o].limit \in Limits \cup {0}
        BY DEF DriverTypeOK
      <4> QED
        BY <4>1, TargetType
    <3>2. PICK answer : BatchCall(run[o].limit, answer) /\ reply' = [reply EXCEPT ![o] = answer]
      BY <2>3 DEF ExecuteBatch
    <3>3. ~IsStall(answer)
      BY <3>1, <3>2, BatchAnswers
    <3> QED
      BY <3>2, <3>3 DEF NeverStalls, DriverTypeOK
  <2>4. CASE reply' = [reply EXCEPT ![o] = NoReply]
    BY <2>1, <2>4 DEF NeverStalls, DriverTypeOK
  <2> QED
    BY <1>1, <1>2, <2>2, <2>3, <2>4
       DEF DriverStep, Start, QueryStatus, ReadState, ReadOutcome, ReadFailure,
           TimeOut, ExecuteLate, End
<1> QED
  BY <1>1, <1>2 DEF Next, Others, vars, driverVars

(* DriverInv is invariant.                                                 *)
LEMMA DriverInvHolds == Spec => []DriverInv
<1>1. ASSUME DriverInv, [Next]_vars PROVE DriverInv'
  <2>1. LifeInv'
    BY <1>1, StepLives, LifeInvStep, TypeOfDriverInv DEF DriverInv
  <2> QED
    BY <1>1, <2>1, DriverTypeStep, NeverStallsStep DEF DriverInv
<1> QED
  BY <1>1, DriverInvInit, PTL DEF Spec

(* The types of the drivers and of the contract they drive.                *)
THEOREM DriverTypeCorrect == Spec => []TypeOK
<1>1. DriverInv => TypeOK
  BY TypeOfDriverInv DEF DriverInv
<1> QED
  BY <1>1, DriverInvHolds, PTL

(* batch.rs:64-73: no driver ever sees a batch that visits nothing without *)
(* finishing, however many operators, late calls, aborts and rollbacks.    *)
THEOREM DriversNeverStall == Spec => []NeverStalls
<1>1. DriverInv => NeverStalls
  BY DEF DriverInv
<1> QED
  BY <1>1, DriverInvHolds, PTL

(* Drivers, late calls and manual calls do nothing to a contract that the  *)
(* life cycle of a migration record does not allow.                        *)
THEOREM DriversFollowTheLifecycle == Spec => LifeSpec
<1>1. DriverInv /\ [Next]_vars => [LifeNext]_lifeVars
  BY StepLives, TypeOfDriverInv DEF DriverInv
<1>2. Init => LifeInit
  BY DEF Init
<1> QED
  BY <1>1, <1>2, DriverInvHolds, PTL DEF Spec, LifeSpec

-----------------------------------------------------------------------------
(* ResumingKeepsProgress, of one step of the record's life.                *)
LEMMA ProgressKept ==
  ASSUME LifeInv, [LifeNext]_lifeVars, mig.status = "Running", mig'.status = "Running"
  PROVE  mig'.cursor >= mig.cursor /\ mig'.total >= mig.total
<1>1. mig.cursor \in Nat /\ mig.total \in Nat /\ \A v \in Versions : len[v] \in Nat
  BY LifecycleAssumption DEF LifeInv, LifeTypeOK
<1>2. ASSUME NEW m \in Migrations, NEW limit \in Nat, Batch(m, limit)
      PROVE  mig'.cursor >= mig.cursor /\ mig'.total >= mig.total
  <2>1. PICK n \in 0 .. MaxBatch :
          /\ mig'.cursor = mig.cursor + n /\ mig'.total = len[m.from]
          /\ mig.from = m.from /\ m.from \in Versions
    BY <1>2, BatchStep
  <2>2. mig.total <= len[m.from]
    BY <2>1 DEF LifeInv, TotalIsIndexed
  <2> QED
    BY <1>1, <2>1, <2>2, LifecycleAssumption
<1>3. UNCHANGED mig => mig'.cursor >= mig.cursor /\ mig'.total >= mig.total
  BY <1>1
<1>4. \A m \in Migrations : ~Begin(m) /\ ~RollbackBegin(m)
  BY DEF Begin, CanBegin, IsActive, RollbackBegin
<1>5. \A m \in Migrations, limit \in Limits : ~RollbackBatch(m, limit)
  BY DEF RollbackBatch
<1>6. ~Abort /\ ~Clear
  BY DEF Abort, Clear, NoMigration
<1> QED
  BY <1>2, <1>3, <1>4, <1>5, <1>6, TargetType
     DEF LifeNext, lifeVars, Declare, Register

(* executor.rs:109-114: neither a begin that is called again, by anybody,  *)
(* nor a late one, loses progress of a run.                                *)
THEOREM ResumingIsSafe == Spec => ResumingKeepsProgress
<1>1. DriverInv /\ [Next]_vars =>
        [mig.status = "Running" /\ mig'.status = "Running" =>
           mig'.cursor >= mig.cursor /\ mig'.total >= mig.total]_vars
  BY StepLives, TypeOfDriverInv, ProgressKept DEF DriverInv
<1> QED
  BY <1>1, DriverInvHolds, PTL DEF Spec, ResumingKeepsProgress

(* How a rollback changes in one step of the record's life.                *)
RollbackKeeps ==
  \/ RollbackGoesOn
  \/ /\ mig' \in {mig, NoMigration}
     /\ version' = version
     /\ \A v \in Versions : len'[v] >= len[v]

LEMMA RollbackKept ==
  ASSUME LifeInv, [LifeNext]_lifeVars, mig.status = "RollingBack"
  PROVE  RollbackKeeps
<1>1. ASSUME NEW m \in Migrations, NEW limit \in Nat, RollbackBatch(m, limit)
      PROVE  RollbackGoesOn
  <2>1. PICK end \in 0 .. MaxLen, n \in 0 .. MaxLen :
          /\ m.from \in Versions /\ m.to \in Versions /\ m.to = m.from + 1
          /\ mig.from = m.from /\ mig.to = m.to /\ mig.cursor <= end
          /\ len' = [len EXCEPT ![m.from] = @ + n]
          /\ mig' = [status |-> IF end >= mig.total THEN "RolledBack" ELSE "RollingBack",
                     from |-> m.from, to |-> m.to, cursor |-> end, total |-> mig.total]
          /\ version' = IF end >= mig.total THEN m.from ELSE version
    BY <1>1, RollbackBatchStep
  <2>2. m.from # m.to
    BY <2>1, NextIsOther
  <2>3. mig.cursor \in Int /\ end \in Int
    BY LifecycleAssumption DEF LifeInv, LifeTypeOK
  <2>4. len'[mig.to] = len[mig.to]
    BY <2>1, <2>2 DEF LifeInv, LifeTypeOK
  <2> QED
    BY <2>1, <2>3, <2>4 DEF RollbackGoesOn
<1>2. \A m \in Migrations : ~Begin(m) /\ ~RollbackBegin(m)
  BY DEF Begin, CanBegin, IsActive, RollbackBegin
<1>3. \A m \in Migrations, limit \in Limits : ~Batch(m, limit)
  BY DEF Batch, CanBatch
<1>4. \A v \in Versions : len[v] \in Nat
  BY LifecycleAssumption DEF LifeInv, LifeTypeOK
<1>5. ASSUME Register PROVE RollbackKeeps
  BY <1>4, <1>5 DEF Register, RollbackKeeps, LifeInv, LifeTypeOK
<1>6. ASSUME UNCHANGED len, version' = version, mig' \in {mig, NoMigration}
      PROVE  RollbackKeeps
  BY <1>4, <1>6 DEF RollbackKeeps
<1>7. ~Declare
  BY DEF Declare, LifeInv, RecordMatchesVersion, NoVersion, Versions
<1>8. CASE Abort
  BY <1>6, <1>8 DEF Abort
<1>9. CASE UNCHANGED lifeVars
  BY <1>6, <1>9 DEF lifeVars
<1>10. ~Clear
  BY DEF Clear
<1> QED
  BY <1>1, <1>2, <1>3, <1>5, <1>7, <1>8, <1>9, <1>10, TargetType
     DEF LifeNext, RollbackKeeps

(* No call of a driver, late ones included, touches a rollback.            *)
LEMMA DriversKeepAway ==
  ASSUME [Next]_vars, mig.status = "RollingBack", driverVars' # driverVars
  PROVE  UNCHANGED lifeVars
<1>1. ~Begin(Target) /\ \A limit : ~Batch(Target, limit)
  BY DEF Begin, CanBegin, IsActive, Batch, CanBatch
<1>2. \A answer : BeginCall(answer) => UNCHANGED lifeVars
  BY <1>1 DEF BeginCall
<1>3. \A limit, answer : BatchCall(limit, answer) => UNCHANGED lifeVars
  BY <1>1 DEF BatchCall
<1>4. PICK o \in Operators : DriverStep(o)
  BY DEF Next, Others, vars
<1>5. CASE ExecuteBegin(o)
  BY <1>2, <1>5 DEF ExecuteBegin
<1>6. CASE ExecuteBatch(o)
  BY <1>3, <1>6 DEF ExecuteBatch
<1>7. CASE ExecuteLate(o)
  BY <1>2, <1>3, <1>7 DEF ExecuteLate
<1> QED
  BY <1>4, <1>5, <1>6, <1>7
     DEF DriverStep, Start, QueryStatus, ReadState, ReadOutcome, ReadFailure, TimeOut

(* batch.rs:141-142, executor.rs:135-140: no run, resumed begin or late    *)
(* call touches a contract that is being rolled back; what users and       *)
(* manual calls do never takes a position from any index, and only a batch *)
(* of the rollback, which leaves the walked index as it is, moves its      *)
(* cursor, never back, or the version, with the last key.                  *)
THEOREM RollbacksAreLeftAlone == Spec => RollbackIsLeftAlone
<1>1. DriverInv /\ [Next]_vars =>
        [mig.status = "RollingBack" =>
           /\ driverVars' # driverVars => UNCHANGED lifeVars
           /\ RollbackKeeps]_vars
  BY StepLives, TypeOfDriverInv, RollbackKept, DriversKeepAway DEF DriverInv
<1> QED
  BY <1>1, DriverInvHolds, PTL DEF Spec, RollbackIsLeftAlone, RollbackKeeps

(* DoneAnswersAreTrue, of one step, for one operator.                      *)
AnswersTruly ==
  \A o \in Operators :
    reply'[o].done /\ reply'[o] # reply[o] => version' = Target.to

(* A step that hands a driver an answer with done leaves the contract at   *)
(* the new version.                                                        *)
LEMMA AnswersTrulyStep ==
  ASSUME DriverInv, [Next]_vars
  PROVE  AnswersTruly
<1> USE DEF DriverInv
<1>1. CASE UNCHANGED reply
  BY <1>1 DEF AnswersTruly
<1>2. ASSUME NEW o \in Operators, DriverStep(o)
      PROVE  AnswersTruly
  <2>1. ~NoReply.done /\ ~Failed.done /\ ~Begun.done
    BY DEF NoReply, Failed, Begun
  <2>2. CASE ExecuteBegin(o)
    BY <2>1, <2>2 DEF ExecuteBegin, AnswersTruly, DriverTypeOK
  <2>3. CASE ExecuteBatch(o)
    <3>1. run[o].limit \in Nat
      <4>1. run[o].limit \in Limits \cup {0}
        BY DEF DriverTypeOK
      <4> QED
        BY <4>1, TargetType
    <3>2. PICK answer : BatchCall(run[o].limit, answer) /\ reply' = [reply EXCEPT ![o] = answer]
      BY <2>3 DEF ExecuteBatch
    <3>3. answer.done => version' = Target.to
      BY <3>1, <3>2, BatchAnswers
    <3> QED
      BY <3>2, <3>3 DEF AnswersTruly, DriverTypeOK
  <2>4. CASE reply' = [reply EXCEPT ![o] = NoReply]
    BY <2>1, <2>4 DEF AnswersTruly, DriverTypeOK
  <2> QED
    BY <1>1, <1>2, <2>2, <2>3, <2>4
       DEF DriverStep, Start, QueryStatus, ReadState, ReadOutcome, ReadFailure,
           TimeOut, ExecuteLate, End
<1> QED
  BY <1>1, <1>2 DEF Next, Others, vars, driverVars

(* run.rs:148-155: a driver that is told "done" is told so by a contract   *)
(* at the new version.                                                     *)
THEOREM DoneAnswersHold == Spec => DoneAnswersAreTrue
<1>1. DriverInv /\ [Next]_vars => [AnswersTruly]_vars
  BY AnswersTrulyStep
<1> QED
  BY <1>1, DriverInvHolds, PTL DEF Spec, DoneAnswersAreTrue, AnswersTruly

-----------------------------------------------------------------------------
(* Theorems of DryRun: what a replay on the fork predicts.  The cursor of  *)
(* a replay is a recursive function of the call's number.                  *)
Cursors(start, n, limit) ==
  LET cursor[k \in 0 .. MaxBatches] ==
        IF k = 0 THEN start ELSE cursor[k - 1] + WindowLen(n, cursor[k - 1], limit)
  IN cursor

(* What the recursion comes to: a limit's worth of keys a call, up to the  *)
(* end of the index.                                                       *)
CursorAt(start, n, limit, k) ==
  IF start >= n THEN start ELSE Least(start + k * limit, n)

(* A set of numbers that is not empty has a least one.                     *)
LEMMA LeastOf ==
  ASSUME NEW S, S \subseteq Nat, S # {}
  PROVE  \E x \in S : \A y \in S : x <= y
<1>1. PICK x \in S : \A y \in S : ~ (<< y, x >> \in OpToRel(<, Nat))
  BY NatLessThanWellFounded, WFMin
<1>2. \A y \in S : ~ (y < x)
  BY <1>1 DEF OpToRel
<1> QED
  BY <1>2

(* One call more is a limit more.                                          *)
LEMMA OneMore ==
  ASSUME NEW k \in Nat, NEW limit \in Nat
  PROVE  k * limit \in Nat /\ (k + 1) * limit = k * limit + limit
OBVIOUS

(* More calls are more keys.                                               *)
LEMMA MoreCalls ==
  ASSUME NEW k \in Nat, NEW j \in Nat, NEW limit \in Nat, k <= j
  PROVE  k * limit <= j * limit
OBVIOUS

(* The closed form satisfies the recursion.                                *)
LEMMA CursorStep ==
  ASSUME NEW start \in Nat, NEW n \in Nat, NEW limit \in Nat \ {0}, NEW k \in Nat
  PROVE  /\ CursorAt(start, n, limit, 0) = start
         /\ CursorAt(start, n, limit, k + 1)
              = CursorAt(start, n, limit, k)
                  + WindowLen(n, CursorAt(start, n, limit, k), limit)
<1>1. PICK p \in Nat : p = k * limit /\ (k + 1) * limit = p + limit
  BY OneMore
<1>2. 0 * limit = 0
  OBVIOUS
<1>3. CursorAt(start, n, limit, 0) = start
  BY <1>2 DEF CursorAt, Least
<1>4. /\ CursorAt(start, n, limit, k) = IF start >= n THEN start ELSE Least(start + p, n)
      /\ CursorAt(start, n, limit, k + 1)
           = IF start >= n THEN start ELSE Least(start + p + limit, n)
  BY <1>1 DEF CursorAt
<1>5. PICK c \in Nat : c = CursorAt(start, n, limit, k)
  BY <1>4 DEF Least
<1>6. c = IF start >= n THEN start ELSE IF start + p <= n THEN start + p ELSE n
  BY <1>4, <1>5 DEF Least
<1>7. (IF start >= n THEN start ELSE IF start + p + limit <= n THEN start + p + limit ELSE n)
        = c + (IF c >= n THEN 0 ELSE IF limit <= n - c THEN limit ELSE n - c)
  BY <1>6
<1> QED
  BY <1>3, <1>4, <1>5, <1>7 DEF WindowLen, Least

(* The cursors of a replay, in closed form.                                *)
LEMMA CursorsClosed ==
  ASSUME NEW start \in Nat, NEW n \in Nat, NEW limit \in Nat \ {0}
  PROVE  \A k \in 0 .. MaxBatches :
           Cursors(start, n, limit)[k] = CursorAt(start, n, limit, k)
<1> DEFINE Solves(f) ==
             f = [k \in 0 .. MaxBatches |->
                    IF k = 0 THEN start ELSE f[k - 1] + WindowLen(n, f[k - 1], limit)]
           at == [k \in 0 .. MaxBatches |-> CursorAt(start, n, limit, k)]
           c == CHOOSE f : Solves(f)
<1>1. Solves(at)
  <2>1. ASSUME NEW k \in 0 .. MaxBatches
        PROVE  at[k] = IF k = 0 THEN start
                       ELSE at[k - 1] + WindowLen(n, at[k - 1], limit)
    <3>1. CASE k = 0
      BY <3>1, CursorStep
    <3>2. CASE k # 0
      <4>1. k - 1 \in Nat /\ k - 1 \in 0 .. MaxBatches /\ (k - 1) + 1 = k
        BY <3>2, RunDriverAssumption
      <4>2. at[k - 1] = CursorAt(start, n, limit, k - 1)
        BY <4>1
      <4>3. CursorAt(start, n, limit, (k - 1) + 1)
              = CursorAt(start, n, limit, k - 1)
                  + WindowLen(n, CursorAt(start, n, limit, k - 1), limit)
        BY <4>1, CursorStep
      <4> QED
        BY <3>2, <4>1, <4>2, <4>3
    <3> QED
      BY <3>1, <3>2
  <2> QED
    BY <2>1
<1>2. Solves(c)
  <2> HIDE DEF Solves, at
  <2> QED
    BY <1>1
<1>3. Cursors(start, n, limit) = c
  BY DEF Cursors
<1> HIDE DEF c
<1>4. \A k \in 0 .. MaxBatches :
        c[k] = IF k = 0 THEN start ELSE c[k - 1] + WindowLen(n, c[k - 1], limit)
  BY <1>2
<1> DEFINE wrong == { k \in 0 .. MaxBatches : c[k] # CursorAt(start, n, limit, k) }
<1>5. ASSUME wrong # {} PROVE FALSE
  <2>1. wrong \subseteq Nat
    BY RunDriverAssumption
  <2>2. PICK k \in wrong : \A j \in wrong : k <= j
    <3> HIDE DEF wrong
    <3> QED
      BY <1>5, <2>1, LeastOf
  <2>3. k \in 0 .. MaxBatches /\ k \in Nat /\ c[k] # CursorAt(start, n, limit, k)
    BY <2>1, <2>2
  <2>4. k # 0
    <3>1. 0 \in 0 .. MaxBatches
      BY RunDriverAssumption
    <3>2. c[0] = start
      BY <1>4, <3>1
    <3> QED
      BY <2>3, <3>2, CursorStep
  <2>5. k - 1 \in 0 .. MaxBatches /\ k - 1 \in Nat /\ ~(k <= k - 1) /\ (k - 1) + 1 = k
    BY <2>3, <2>4, RunDriverAssumption
  <2>6. c[k - 1] = CursorAt(start, n, limit, k - 1)
    BY <2>2, <2>5
  <2>7. c[k] = c[k - 1] + WindowLen(n, c[k - 1], limit)
    BY <1>4, <2>3, <2>4
  <2>8. CursorAt(start, n, limit, (k - 1) + 1)
          = CursorAt(start, n, limit, k - 1)
              + WindowLen(n, CursorAt(start, n, limit, k - 1), limit)
    BY <2>5, CursorStep
  <2> QED
    BY <2>3, <2>5, <2>6, <2>7, <2>8
<1> QED
  BY <1>3, <1>5

(* A call finds the migration done when the limit's worth of keys of all   *)
(* the calls reaches the end of the index; one that is not done moved.     *)
LEMMA CursorDone ==
  ASSUME NEW start \in Nat, NEW n \in Nat, NEW limit \in Nat \ {0},
         NEW k \in 1 .. MaxBatches
  PROVE  LET cursor == Cursors(start, n, limit)
         IN /\ Done(cursor[k], n) <=> start + k * limit >= n
            /\ ~Done(cursor[k], n) => cursor[k] # cursor[k - 1]
<1>1. /\ k \in 0 .. MaxBatches /\ k - 1 \in 0 .. MaxBatches
      /\ k \in Nat /\ k - 1 \in Nat /\ (k - 1) + 1 = k
  BY RunDriverAssumption
<1>2. PICK p \in Nat : p = (k - 1) * limit /\ k * limit = p + limit
  BY <1>1, OneMore
<1>3. /\ Cursors(start, n, limit)[k] = IF start >= n THEN start ELSE Least(start + p + limit, n)
      /\ Cursors(start, n, limit)[k - 1] = IF start >= n THEN start ELSE Least(start + p, n)
  BY <1>1, <1>2, CursorsClosed DEF CursorAt
<1> QED
  BY <1>2, <1>3 DEF Done, Least

(* The calls that find the migration done, and the first of some calls.    *)
CallsTo(start, n, limit) == { k \in 1 .. MaxBatches : start + k * limit >= n }
FirstOf(calls) ==
  IF calls = {} THEN MaxBatches ELSE CHOOSE k \in calls : \A j \in calls : k <= j

(* It is among them, unless there are none: then it is the last call made. *)
LEMMA FirstOfProperties ==
  ASSUME NEW calls, calls \subseteq 1 .. MaxBatches
  PROVE  /\ FirstOf(calls) \in 1 .. MaxBatches
         /\ calls # {} => FirstOf(calls) \in calls /\ \A j \in calls : FirstOf(calls) <= j
<1>1. CASE calls = {}
  BY <1>1, RunDriverAssumption DEF FirstOf
<1>2. CASE calls # {}
  <2>1. calls \subseteq Nat
    BY RunDriverAssumption
  <2>2. \E k \in calls : \A j \in calls : k <= j
    BY <1>2, <2>1, LeastOf
  <2>3. FirstOf(calls) = CHOOSE k \in calls : \A j \in calls : k <= j
    BY <1>2 DEF FirstOf
  <2> QED
    BY <2>2, <2>3
<1> QED
  BY <1>1, <1>2

(* Call k is the first of those that find the migration done.              *)
LEMMA FirstIs ==
  ASSUME NEW calls, calls \subseteq 1 .. MaxBatches,
         NEW k \in calls, \A j \in calls : k <= j
  PROVE  FirstOf(calls) = k
<1>1. PICK f \in calls : f = FirstOf(calls) /\ \A j \in calls : f <= j
  BY FirstOfProperties
<1>2. f <= k /\ k <= f
  BY <1>1
<1>3. f \in Nat /\ k \in Nat
  BY RunDriverAssumption
<1> QED
  BY <1>1, <1>2, <1>3

(* A longer index is done later, but one key costs one more call at most.  *)
LEMMA OneKeyOneCall ==
  ASSUME NEW start \in Nat, NEW n \in Nat, NEW more \in n .. n + 1,
         NEW limit \in Nat \ {0}
  PROVE  /\ CallsTo(start, more, limit) # {} => CallsTo(start, n, limit) # {}
         /\ FirstOf(CallsTo(start, more, limit))
              \in {FirstOf(CallsTo(start, n, limit)), FirstOf(CallsTo(start, n, limit)) + 1}
<1> DEFINE after == CallsTo(start, more, limit)
           before == CallsTo(start, n, limit)
<1>1. after \subseteq 1 .. MaxBatches /\ before \subseteq 1 .. MaxBatches
  BY DEF CallsTo
<1>2. ASSUME NEW k \in after PROVE k \in before
  <2>1. k \in 1 .. MaxBatches /\ k \in Nat /\ start + k * limit >= more
    BY <1>2, RunDriverAssumption DEF CallsTo
  <2>2. PICK p \in Nat : p = k * limit
    BY <2>1, OneMore
  <2>3. start + k * limit >= n
    BY <2>1, <2>2
  <2> QED
    BY <2>1, <2>3 DEF CallsTo
<1>3. ASSUME NEW b \in before, b + 1 <= MaxBatches PROVE b + 1 \in after
  <2>1. b \in 1 .. MaxBatches /\ b \in Nat /\ start + b * limit >= n
    BY <1>3, RunDriverAssumption DEF CallsTo
  <2>2. PICK p \in Nat : p = b * limit /\ (b + 1) * limit = p + limit
    BY <2>1, OneMore
  <2>3. start + (b + 1) * limit >= more
    BY <2>1, <2>2
  <2> QED
    BY <1>3, <2>1, <2>3, RunDriverAssumption DEF CallsTo
<1> HIDE DEF after, before
<1>4. CASE before = {}
  BY <1>2, <1>4 DEF FirstOf, after, before
<1>5. CASE before # {}
  <2>1. PICK b \in before : b = FirstOf(before) /\ \A j \in before : b <= j
    BY <1>1, <1>5, FirstOfProperties
  <2>2. b \in 1 .. MaxBatches /\ b \in Nat
    BY <1>1, <2>1, RunDriverAssumption
  <2>3. CASE after = {}
    <3>1. FirstOf(after) = MaxBatches /\ b = MaxBatches
      BY <1>3, <2>1, <2>2, <2>3, RunDriverAssumption DEF FirstOf
    <3> QED
      BY <1>5, <2>1, <2>3, <3>1 DEF after, before
  <2>4. CASE after # {}
    <3>1. PICK k \in after : k = FirstOf(after) /\ \A j \in after : k <= j
      BY <1>1, <2>4, FirstOfProperties
    <3>2. k \in 1 .. MaxBatches /\ k \in Nat /\ b <= k
      BY <1>1, <1>2, <2>1, <3>1, RunDriverAssumption
    <3>3. k <= b + 1
      BY <1>3, <2>2, <3>1, <3>2, RunDriverAssumption
    <3>4. k = b \/ k = b + 1
      BY <2>2, <3>2, <3>3
    <3> QED
      BY <1>5, <2>1, <3>1, <3>4 DEF after, before
  <2> QED
    BY <2>3, <2>4
<1> QED
  BY <1>4, <1>5

(* From the first key on the count is a division rounded up, and at least  *)
(* one.                                                                    *)
LEMMA CountIsDivision ==
  ASSUME NEW n \in Nat, NEW limit \in Nat \ {0}, CallsTo(0, n, limit) # {}
  PROVE  TransactionsNeeded(n, limit) = FirstOf(CallsTo(0, n, limit))
<1> DEFINE q == (n + limit - 1) \div limit
           t == TransactionsNeeded(n, limit)
           calls == CallsTo(0, n, limit)
<1>1. /\ q \in Nat
      /\ \E r \in 0 .. (limit - 1) : n + limit - 1 = limit * q + r
  <2>1. n + limit - 1 \in Nat
    OBVIOUS
  <2> QED
    BY <2>1
<1>2. t \in Nat /\ t >= 1 /\ t >= q /\ (t = q \/ (t = 1 /\ q = 0))
  <2> HIDE DEF q
  <2> QED
    BY <1>1 DEF TransactionsNeeded, Greatest
<1> HIDE DEF q
<1>3. t * limit >= n
  <2>1. PICK r \in 0 .. (limit - 1) : n + limit - 1 = limit * q + r
    BY <1>1
  <2>2. PICK p \in Nat : p = q * limit /\ p = limit * q
    BY <1>1
  <2>3. p <= t * limit
    BY <1>1, <1>2, <2>2, MoreCalls
  <2>4. PICK s \in Nat : s = t * limit
    BY <1>2, OneMore
  <2> QED
    BY <2>1, <2>2, <2>3, <2>4
<1>4. ASSUME NEW j \in calls PROVE t <= j
  <2>1. j \in Nat /\ j >= 1 /\ j * limit >= n
    <3>1. j \in 1 .. MaxBatches /\ 0 + j * limit >= n
      BY DEF CallsTo
    <3>2. j \in Nat
      BY <3>1, RunDriverAssumption
    <3>3. j * limit \in Nat
      BY <3>2, OneMore
    <3> QED
      BY <3>1, <3>2, <3>3
  <2>2. ASSUME q > j PROVE FALSE
    <3>1. (j + 1) * limit <= q * limit
      BY <1>1, <2>1, <2>2, MoreCalls
    <3>2. PICK p \in Nat : p = j * limit /\ (j + 1) * limit = p + limit
      BY <2>1, OneMore
    <3>3. PICK s \in Nat : s = q * limit /\ s = limit * q
      BY <1>1
    <3> QED
      BY <1>1, <2>1, <3>1, <3>2, <3>3
  <2> QED
    BY <1>1, <1>2, <2>1, <2>2
<1>5. t \in calls
  <2>1. PICK k \in calls : TRUE
    OBVIOUS
  <2>2. k \in 1 .. MaxBatches /\ t <= k
    BY <1>4, <2>1 DEF CallsTo
  <2>3. t \in 1 .. MaxBatches
    BY <1>2, <2>2, RunDriverAssumption
  <2>4. t * limit \in Nat
    BY <1>2, OneMore
  <2> HIDE DEF t
  <2> QED
    BY <1>3, <2>3, <2>4 DEF CallsTo
<1>6. calls \subseteq 1 .. MaxBatches
  BY DEF CallsTo
<1> QED
  <2> HIDE DEF t, calls
  <2> QED BY <1>4, <1>5, <1>6, FirstIs DEF t, calls

(* A batch leaves one call less, and when none is left it was the last; as *)
(* many as can be counted when it was more than that.                      *)
LEMMA OneBatchLess ==
  ASSUME NEW start \in Nat, NEW n \in Nat, NEW limit \in Nat \ {0}
  PROVE  /\ start + limit >= n =>
              /\ CallsTo(start, n, limit) # {}
              /\ FirstOf(CallsTo(start, n, limit)) = 1
         /\ start + limit < n /\ CallsTo(start, n, limit) = {} =>
              FirstOf(CallsTo(start + limit, n, limit)) = MaxBatches
         /\ start + limit < n /\ CallsTo(start, n, limit) # {} =>
              /\ CallsTo(start + limit, n, limit) # {}
              /\ FirstOf(CallsTo(start + limit, n, limit))
                   = FirstOf(CallsTo(start, n, limit)) - 1
<1> DEFINE before == CallsTo(start, n, limit)
           after == CallsTo(start + limit, n, limit)
<1>1. after \subseteq 1 .. MaxBatches /\ before \subseteq 1 .. MaxBatches
  BY DEF CallsTo
<1>2. ASSUME start + limit >= n PROVE before # {} /\ FirstOf(before) = 1
  <2>1. 1 * limit = limit
    OBVIOUS
  <2>2. 1 \in before
    BY <1>2, <2>1, RunDriverAssumption DEF CallsTo
  <2>3. \A j \in before : 1 <= j
    BY <1>1, RunDriverAssumption
  <2> HIDE DEF before
  <2> QED
    BY <1>1, <2>2, <2>3, FirstIs
<1>3. ASSUME NEW j \in after, j + 1 <= MaxBatches PROVE j + 1 \in before
  <2>1. j \in 1 .. MaxBatches /\ j \in Nat /\ (start + limit) + j * limit >= n
    BY <1>3, RunDriverAssumption DEF CallsTo
  <2>2. PICK p \in Nat : p = j * limit /\ (j + 1) * limit = p + limit
    BY <2>1, OneMore
  <2>3. start + (j + 1) * limit >= n
    BY <2>1, <2>2
  <2> QED
    BY <1>3, <2>1, <2>3, RunDriverAssumption DEF CallsTo
<1>4. ASSUME start + limit < n, before # {}
      PROVE  after # {} /\ FirstOf(after) = FirstOf(before) - 1
  <2>1. PICK b \in before : b = FirstOf(before) /\ \A j \in before : b <= j
    BY <1>1, <1>4, FirstOfProperties
  <2>2. b \in 1 .. MaxBatches /\ b \in Nat /\ start + b * limit >= n
    BY <2>1, RunDriverAssumption DEF CallsTo
  <2>3. b # 1
    <3>1. 1 * limit = limit
      OBVIOUS
    <3> QED
      BY <1>4, <2>2, <3>1
  <2>4. b - 1 \in 1 .. MaxBatches /\ b - 1 \in Nat /\ (b - 1) + 1 = b
    BY <2>2, <2>3, RunDriverAssumption
  <2>5. (start + limit) + (b - 1) * limit >= n
    <3>1. PICK p \in Nat : p = (b - 1) * limit /\ b * limit = p + limit
      BY <2>4, OneMore
    <3> QED
      BY <2>2, <3>1
  <2>6. b - 1 \in after
    BY <2>4, <2>5 DEF CallsTo
  <2>7. ASSUME NEW j \in after PROVE b - 1 <= j
    <3>1. j \in 1 .. MaxBatches /\ j \in Nat
      BY <1>1, RunDriverAssumption
    <3> QED
      BY <1>3, <2>1, <2>2, <3>1, RunDriverAssumption
  <2>8. FirstOf(after) = b - 1
    <3> HIDE DEF after
    <3> QED
      BY <1>1, <2>6, <2>7, FirstIs
  <2> QED
    BY <2>1, <2>6, <2>8
<1>5. ASSUME before = {} PROVE FirstOf(after) = MaxBatches
  <2>1. CASE after = {}
    BY <2>1 DEF FirstOf
  <2>2. CASE after # {}
    <3>1. PICK j \in after : j = FirstOf(after)
      BY <1>1, <2>2, FirstOfProperties
    <3>2. j \in 1 .. MaxBatches /\ ~(j + 1 <= MaxBatches)
      BY <1>1, <1>3, <1>5
    <3> QED
      BY <3>1, <3>2, RunDriverAssumption
  <2> QED
    BY <2>1, <2>2
<1> QED
  BY <1>2, <1>4, <1>5

(* A replay is counted over the index of the old version from where the    *)
(* record's cursor is.                                                     *)
LEMMA ReplayCounts ==
  ASSUME NEW start \in Nat, NEW n \in Nat, NEW limit \in Nat \ {0},
         start = ReplayFrom, n = len[Target.from], n = ReplayTotal
  PROVE  /\ DoneCalls(limit) = CallsTo(start, n, limit)
         /\ Batches(limit) = FirstOf(CallsTo(start, n, limit))
         /\ ~Stalls(limit)
<1>1. ReplayCursors(limit) = Cursors(start, n, limit)
  BY DEF ReplayCursors, Cursors
<1>2. DoneCalls(limit) = { k \in 1 .. MaxBatches : Done(Cursors(start, n, limit)[k], n) }
  BY <1>1 DEF DoneCalls
<1>3. DoneCalls(limit) = CallsTo(start, n, limit)
  BY <1>2, CursorDone DEF CallsTo
<1>4. Batches(limit) = FirstOf(CallsTo(start, n, limit))
  BY <1>3 DEF Batches, FirstOf
<1>5. ASSUME NEW k \in 1 .. Batches(limit), k \notin DoneCalls(limit)
      PROVE  ReplayCursors(limit)[k] # ReplayCursors(limit)[k - 1]
  <2>1. CallsTo(start, n, limit) \subseteq 1 .. MaxBatches
    BY DEF CallsTo
  <2>2. Batches(limit) \in 1 .. MaxBatches
    BY <1>4, <2>1, FirstOfProperties
  <2>3. k \in 1 .. MaxBatches
    BY <2>2, RunDriverAssumption
  <2> QED
    BY <1>1, <1>2, <1>5, <2>3, CursorDone
<1> QED
  BY <1>3, <1>4, <1>5 DEF Stalls

(* The same of the state a step leads to.                                  *)
LEMMA ReplayCountsNext ==
  ASSUME NEW start \in Nat, NEW n \in Nat, NEW limit \in Nat \ {0},
         start = ReplayFrom', n = len'[Target.from], n = ReplayTotal'
  PROVE  /\ DoneCalls(limit)' = CallsTo(start, n, limit)
         /\ Batches(limit)' = FirstOf(CallsTo(start, n, limit))
<1>1. ReplayCursors(limit)' = Cursors(start, n, limit)
  BY DEF ReplayCursors, Cursors
<1>2. DoneCalls(limit)' = { k \in 1 .. MaxBatches : Done(Cursors(start, n, limit)[k], n) }
  BY <1>1 DEF DoneCalls
<1>3. DoneCalls(limit)' = CallsTo(start, n, limit)
  BY <1>2, CursorDone DEF CallsTo
<1> QED
  BY <1>3 DEF Batches, FirstOf

(* Where a replay starts, how far it goes and of what record it is.        *)
LEMMA ReplayBase ==
  ASSUME LifeInv, CanReplay(1)
  PROVE  /\ ReplayFrom \in Nat /\ len[Target.from] \in Nat
         /\ ReplayTotal = len[Target.from]
         /\ version = Target.from /\ Target.from \in Versions /\ Target.to \in Versions
         /\ Target.to # Target.from
         /\ IsActive => mig.status = "Running" /\ mig.from = Target.from
<1> USE DEF LifeInv, LifeTypeOK
<1>1. version = Target.from /\ (IsActive => IsRecordOf(Target))
  BY DEF CanReplay, Upgradeable
<1>2. Target.from \in Versions /\ Target.to \in Versions
  BY TargetType, LifecycleAssumption
<1>3. Target.to = Target.from + 1 \/ (IsActive /\ mig.status = "Running")
  BY DEF CanReplay, CanBegin, Resumes, IsActive
<1>4. Target.to # Target.from
  BY <1>1, <1>2, <1>3, NextIsOther DEF RecordMatchesVersion, IsRecordOf
<1>5. IsActive => mig.status = "Running" /\ mig.from = Target.from
  BY <1>1, <1>4 DEF RecordMatchesVersion, IsActive, IsRecordOf
<1>6. len[Target.from] \in Nat /\ mig.cursor \in Nat /\ mig.total \in Nat
  BY <1>2, LifecycleAssumption
<1>7. mig.status = "Running" => mig.total <= len[Target.from]
  BY <1>5 DEF TotalIsIndexed, IsActive
<1> QED
  BY <1>1, <1>2, <1>4, <1>5, <1>6, <1>7 DEF ReplayFrom, ReplayTotal, Greatest

(* What the contract offers, with the migration of its build.              *)
ContractStep ==
  \/ Declare \/ Register \/ Abort \/ Clear
  \/ Begin(Target) \/ RollbackBegin(Target)
  \/ \E limit \in 1 .. MaxBatch : Batch(Target, limit) \/ RollbackBatch(Target, limit)

(* A submitted call, in time or late, is such a step or changes nothing.   *)
LEMMA CallsAreContractSteps ==
  /\ \A answer : BeginCall(answer) => [ContractStep]_lifeVars
  /\ \A limit, answer : BatchCall(limit, answer) => [ContractStep]_lifeVars
<1>1. \A limit : Batch(Target, limit) => limit \in 1 .. MaxBatch
  BY DEF Batch, CanBatch
<1> QED
  BY <1>1 DEF BeginCall, BatchCall, ContractStep

(* Whatever anybody does is one of these steps.                            *)
LEMMA StepIsContractStep ==
  ASSUME [Next]_vars
  PROVE  [ContractStep]_lifeVars
<1>1. \A limit : RollbackBatch(Target, limit) => limit \in 1 .. MaxBatch
  BY DEF RollbackBatch
<1>2. CASE Others
  BY <1>1, <1>2 DEF Others, ContractStep
<1>3. ASSUME NEW o \in Operators, DriverStep(o)
      PROVE  [ContractStep]_lifeVars
  BY <1>3, CallsAreContractSteps
     DEF DriverStep, ExecuteBegin, ExecuteBatch, ExecuteLate,
         Start, QueryStatus, ReadState, ReadOutcome, ReadFailure, TimeOut
<1> QED
  BY <1>2, <1>3 DEF Next, vars

-----------------------------------------------------------------------------
(* The disjuncts of ReplayPredicts, one for each kind of step.             *)
PredictsRegistration ==
  /\ mig' = mig
  /\ \A limit \in 1 .. MaxBatch :
       /\ Batches(limit)' \in {Batches(limit), Batches(limit) + 1}
       /\ Completes(limit)' => Completes(limit)

PredictsBegin ==
  /\ mig.status # "Running" /\ mig'.status = "Running"
  /\ \A limit \in 1 .. MaxBatch :
       /\ Completes(limit)' = Completes(limit) /\ Batches(limit)' = Batches(limit)
       /\ Reported(limit) = {Batches(limit)}

PredictsBatch ==
  /\ mig.status = "Running"
  /\ \E limit \in 1 .. MaxBatch :
       /\ Batch(Target, limit)
       /\ ~Stalls(limit)
       /\ IF mig'.status = "Completed" THEN Completes(limit) /\ Batches(limit) = 1
          ELSE IF Completes(limit)
          THEN Completes(limit)' /\ Batches(limit)' = Batches(limit) - 1
          ELSE Batches(limit)' = MaxBatches

Predicted ==
  lifeVars' # lifeVars /\ CanReplay(1) =>
    \/ mig' = NoMigration
    \/ PredictsRegistration
    \/ PredictsBegin
    \/ PredictsBatch

(* A registration in the old version's index costs one batch at the most,  *)
(* and one under another version none.                                     *)
LEMMA RegistrationPredicted ==
  ASSUME LifeInv, CanReplay(1), Register
  PROVE  PredictsRegistration
<1> DEFINE n == len[Target.from]
           more == len'[Target.from]
<1>1. /\ ReplayFrom \in Nat /\ n \in Nat /\ ReplayTotal = n /\ Target.from \in Versions
  BY ReplayBase
<1>2. PICK v \in {Written, Recorded} :
        len' = [len EXCEPT ![v] = @ + 1] /\ UNCHANGED << version, mig >>
  BY DEF Register
<1>3. more \in Nat /\ more \in n .. n + 1
  BY <1>1, <1>2 DEF LifeInv, LifeTypeOK
<1>4. ReplayFrom' = ReplayFrom
  BY <1>2 DEF ReplayFrom
<1>5. ReplayTotal' = more
  <2>1. CASE mig.status = "Running"
    <3>1. mig.total \in Nat
      BY LifecycleAssumption DEF LifeInv, LifeTypeOK
    <3>2. Greatest(mig.total, n) = n
      BY <1>1, <2>1 DEF ReplayTotal
    <3>3. mig.total <= n
      BY <1>1, <3>1, <3>2 DEF Greatest
    <3>4. mig.total <= more
      BY <1>1, <1>3, <3>1, <3>3
    <3>5. Greatest(mig.total, more) = more
      BY <1>3, <3>1, <3>4 DEF Greatest
    <3> QED
      BY <1>2, <2>1, <3>5 DEF ReplayTotal
  <2>2. CASE mig.status # "Running"
    BY <1>2, <2>2 DEF ReplayTotal
  <2> QED
    BY <2>1, <2>2
<1>6. ASSUME NEW limit \in 1 .. MaxBatch
      PROVE  /\ Batches(limit)' \in {Batches(limit), Batches(limit) + 1}
             /\ Completes(limit)' => Completes(limit)
  <2>1. limit \in Nat \ {0}
    BY LifecycleAssumption
  <2> HIDE DEF n, more
  <2>2. /\ Batches(limit) = FirstOf(CallsTo(ReplayFrom, n, limit))
        /\ DoneCalls(limit) = CallsTo(ReplayFrom, n, limit)
    BY <1>1, <2>1, ReplayCounts DEF n
  <2>3. /\ Batches(limit)' = FirstOf(CallsTo(ReplayFrom, more, limit))
        /\ DoneCalls(limit)' = CallsTo(ReplayFrom, more, limit)
    BY <1>1, <1>3, <1>4, <1>5, <2>1, ReplayCountsNext DEF more
  <2>4. /\ CallsTo(ReplayFrom, more, limit) # {} => CallsTo(ReplayFrom, n, limit) # {}
        /\ FirstOf(CallsTo(ReplayFrom, more, limit))
             \in {FirstOf(CallsTo(ReplayFrom, n, limit)),
                  FirstOf(CallsTo(ReplayFrom, n, limit)) + 1}
    BY <1>1, <1>3, <2>1, OneKeyOneCall
  <2>5. (Completes(limit)' <=> DoneCalls(limit)' # {}) /\ (Completes(limit) <=> DoneCalls(limit) # {})
    BY DEF Completes
  <2> QED
    BY <2>2, <2>3, <2>4, <2>5
<1> QED
  BY <1>2, <1>6 DEF PredictsRegistration

(* begin starts at the first key, as the replay did, whose two numbers are *)
(* the same when it starts there.                                          *)
LEMMA BeginPredicted ==
  ASSUME LifeInv, CanReplay(1), Begin(Target)
  PROVE  PredictsBegin
<1> DEFINE n == len[Target.from]
<1>1. /\ ReplayFrom \in Nat /\ n \in Nat /\ ReplayTotal = n
  BY ReplayBase
<1>2. /\ mig.status # "Running"
      /\ mig'.status = "Running" /\ mig'.cursor = 0 /\ mig'.total = n /\ len' = len
  BY DEF Begin, CanBegin, IsActive
<1>3. ReplayFrom = 0 /\ ReplayFrom' = 0 /\ len'[Target.from] = n /\ ReplayTotal' = n
  BY <1>1, <1>2 DEF ReplayFrom, ReplayTotal, Greatest
<1>4. ASSUME NEW limit \in 1 .. MaxBatch
      PROVE  /\ Completes(limit)' = Completes(limit) /\ Batches(limit)' = Batches(limit)
             /\ Reported(limit) = {Batches(limit)}
  <2>1. limit \in Nat \ {0} /\ 0 \in Nat
    BY LifecycleAssumption
  <2> HIDE DEF n
  <2>2. /\ DoneCalls(limit) = CallsTo(0, n, limit)
        /\ Batches(limit) = FirstOf(CallsTo(0, n, limit))
    BY <1>1, <1>3, <2>1, ReplayCounts DEF n
  <2>3. /\ DoneCalls(limit)' = CallsTo(0, n, limit)
        /\ Batches(limit)' = FirstOf(CallsTo(0, n, limit))
    BY <1>1, <1>3, <2>1, ReplayCountsNext DEF n
  <2>4. Completes(limit)' = (DoneCalls(limit)' # {}) /\ Completes(limit) = (DoneCalls(limit) # {})
    BY DEF Completes
  <2>5. Completes(limit) => TransactionsNeeded(n, limit) = Batches(limit)
    BY <1>1, <2>1, <2>2, <2>4, CountIsDivision
  <2>6. Reported(limit) = {Batches(limit)}
    BY <1>1, <2>5 DEF Reported
  <2> QED
    BY <2>2, <2>3, <2>4, <2>6
<1> QED
  BY <1>2, <1>4 DEF PredictsBegin

(* A batch does what the replay's first call did; the rest is left.        *)
LEMMA BatchPredicted ==
  ASSUME LifeInv, CanReplay(1), NEW limit \in 1 .. MaxBatch, Batch(Target, limit)
  PROVE  PredictsBatch
<1> DEFINE n == len[Target.from]
           start == mig.cursor
<1>1. /\ ReplayFrom \in Nat /\ n \in Nat /\ ReplayTotal = n
      /\ Target.from \in Versions /\ Target.to \in Versions /\ Target.to # Target.from
  BY ReplayBase
<1>2. mig.status = "Running"
  BY DEF Batch, CanBatch
<1>3. ReplayFrom = start /\ start \in Nat /\ mig.total \in Nat
  BY <1>1, <1>2, LifecycleAssumption DEF ReplayFrom, LifeInv, LifeTypeOK
<1>4. limit \in Nat \ {0}
  BY LifecycleAssumption
<1>5. Greatest(mig.total, n) = n
  BY <1>1, <1>2 DEF ReplayTotal
<1>6. /\ len' = [len EXCEPT ![Target.to] = @ + WindowLen(n, start, limit)]
      /\ mig' = [mig EXCEPT !.cursor = start + WindowLen(n, start, limit), !.total = n,
                            !.status = IF Done(start + WindowLen(n, start, limit), n)
                                       THEN "Completed" ELSE @]
  BY <1>5 DEF Batch
<1>7. len'[Target.from] = n
  BY <1>1, <1>6 DEF LifeInv, LifeTypeOK
<1>8. PICK w \in Nat :
        /\ w = WindowLen(n, start, limit)
        /\ w = IF start >= n THEN 0 ELSE IF limit <= n - start THEN limit ELSE n - start
  <2>1. (IF start >= n THEN 0 ELSE IF limit <= n - start THEN limit ELSE n - start) \in Nat
    BY <1>1, <1>3, <1>4
  <2> QED
    BY <2>1 DEF WindowLen, Least
<1>9. /\ mig'.status = IF start + w >= n THEN "Completed" ELSE "Running"
      /\ mig'.cursor = start + w /\ mig'.total = n
  BY <1>2, <1>6, <1>8 DEF LifeInv, LifeTypeOK, Done
<1>10. /\ start + limit >= n => start + w >= n
       /\ start + limit < n => start + w = start + limit /\ ~(start + w >= n)
  BY <1>1, <1>3, <1>4, <1>8
<1> HIDE DEF n, start
<1>11. /\ DoneCalls(limit) = CallsTo(start, n, limit)
       /\ Batches(limit) = FirstOf(CallsTo(start, n, limit))
       /\ ~Stalls(limit)
  BY <1>1, <1>3, <1>4, ReplayCounts DEF n
<1>12. CASE start + limit >= n
  <2>1. mig'.status = "Completed" /\ Completes(limit) /\ Batches(limit) = 1
    BY <1>1, <1>3, <1>4, <1>9, <1>10, <1>11, <1>12, OneBatchLess DEF Completes
  <2> QED
    BY <1>2, <1>11, <2>1 DEF PredictsBatch
<1>13. CASE start + limit < n
  <2>1. mig'.status = "Running" /\ mig'.cursor = start + limit /\ mig'.total = n
    BY <1>9, <1>10, <1>13
  <2>2. ReplayFrom' = start + limit /\ ReplayTotal' = n
    BY <1>1, <1>7, <2>1 DEF ReplayFrom, ReplayTotal, Greatest
  <2>3. start + limit \in Nat
    BY <1>3, <1>4
  <2>4. /\ DoneCalls(limit)' = CallsTo(start + limit, n, limit)
        /\ Batches(limit)' = FirstOf(CallsTo(start + limit, n, limit))
    BY <1>1, <1>4, <1>7, <2>2, <2>3, ReplayCountsNext
  <2>5. CallsTo(start, n, limit) # {} =>
          /\ CallsTo(start + limit, n, limit) # {}
          /\ FirstOf(CallsTo(start + limit, n, limit))
               = FirstOf(CallsTo(start, n, limit)) - 1
    BY <1>1, <1>3, <1>4, <1>13, OneBatchLess
  <2>6. Completes(limit) => Completes(limit)' /\ Batches(limit)' = Batches(limit) - 1
    BY <1>11, <2>4, <2>5 DEF Completes
  <2>7. ~Completes(limit) => Batches(limit)' = MaxBatches
    BY <1>1, <1>3, <1>4, <1>11, <1>13, <2>4, OneBatchLess DEF Completes
  <2> QED
    BY <1>2, <1>11, <2>1, <2>6, <2>7 DEF PredictsBatch
<1> QED
  BY <1>1, <1>3, <1>4, <1>12, <1>13

(* dry_run.rs:161-182, 276-306: what a replay says of the batches that are *)
(* left stays true, whoever acts on the ledger next: exactly so many when  *)
(* it has reached the end, more than so many when --max-batches stopped    *)
(* it.                                                                     *)
THEOREM ReplaysPredict == Spec => ReplayPredicts
<1>1. ASSUME DriverInv, [Next]_vars PROVE Predicted
  <2> SUFFICES ASSUME lifeVars' # lifeVars, CanReplay(1)
               PROVE  \/ mig' = NoMigration
                      \/ PredictsRegistration
                      \/ PredictsBegin
                      \/ PredictsBatch
    BY DEF Predicted
  <2>1. LifeInv /\ ContractStep
    BY <1>1, StepIsContractStep DEF DriverInv
  <2>2. /\ version = Target.from /\ Target.from \in Versions /\ Target.to # Target.from
        /\ IsActive => mig.status = "Running"
    BY <2>1, ReplayBase
  <2>3. ~Declare
    BY <2>2, VersionsAreNat DEF Declare, NoVersion
  <2>4. ~RollbackBegin(Target)
    BY <2>2 DEF RollbackBegin
  <2>5. \A limit : ~RollbackBatch(Target, limit)
    BY <2>2 DEF RollbackBatch, IsActive
  <2>6. Abort \/ Clear => mig' = NoMigration
    BY DEF Abort, Clear
  <2> QED
    BY <2>1, <2>3, <2>4, <2>5, <2>6, RegistrationPredicted, BeginPredicted, BatchPredicted
       DEF ContractStep
<1>2. DriverInv /\ [Next]_vars => [Predicted]_lifeVars
  BY <1>1
<1> QED
  BY <1>2, DriverInvHolds, PTL
     DEF Spec, ReplayPredicts, Predicted, PredictsRegistration, PredictsBegin, PredictsBatch
=============================================================================
