# soroban-migrate in TLA+

A verification project for the Soroban contract upgrade and state migration
framework: the on-chain library `crates/soroban-migrate`, the schema and code
generation crates around it, the operator's CLI and the vault example. It holds
TLA+ modules translated from the Rust source, TLC configurations that check them
on small instances, and proofs that hold for every value of the constants.

File names without a path are those of `crates/soroban-migrate/src/` for the library,
`crates/soroban-migrate-cli/src/` for the commands and
`crates/soroban-migrate-schema/src/` for `model.rs`, `diff.rs`, `plan.rs` and
`codegen.rs`.

## The system

The framework moves the storage of a live contract from the entry shape of schema
version *n* to that of *n + 1*, many transactions long, while the contract serves
calls. A contract invocation is atomic on the ledger, so the unit of interleaving
is the call: operators, users of the contract and deployments interleave between
calls, and a call that returns an error leaves nothing behind.

| Part | State it keeps | Operations | Who it talks to |
| --- | --- | --- | --- |
| Key index (`index.rs`) | per version: a summary (`len`, `page_count`) and pages of 32 keys | `register`, `get`, `range`, `contains`, `reset`, `footprint_entries` | called by the write path, executor, rollback, preflight |
| Version gate (`version.rs`) | the recorded schema version | `initialize`, `adopt`, `require` | guards `begin` of executor and rollback |
| Migration record and trait (`migration.rs`) | pair of versions, cursor, total, status | read, write, clear; `up` and `down` of an application's migration | executor and rollback drive it |
| Executor (`executor.rs`) | none of its own | `begin`, `batch`, `abort`, `clear`, `run_to_completion` | walks the old index, calls `up`, fills the new index, advances the version |
| Rollback (`rollback.rs`) | none of its own | `begin`, `batch`, `run_to_completion` | walks the new index backwards, calls `down`, rebuilds the old index |
| Write path (`store.rs`) | the application's entries | `put`, `put_unindexed`, `remove` | registers under the version the record implies |
| Preflight (`preflight.rs`) | none (reads) | `inspect`, `assert_upgradeable`, `assert_keys_indexed`, `count_orphans` | reads version, record and index |
| Fleet (`fleet.rs`) | executable reference tags | `publish`, `promote`, `promote_to_hash`, `adopt_executable_ref` | decides which build an instance runs |
| Vault example (`examples/vault`) | balances, statistics, admin | deposit, freeze, migration and fleet entry points | all of the above |
| Operator driver (`crates/soroban-migrate-cli`: `run`, `status`, `stellar.rs`, `batch.rs`) | none between runs | status, begin, a loop of batches over a child process with a deadline | calls the contract's entry points |
| Dry run (`commands/dry_run.rs`) | none: a fork of a ledger snapshot | begin or resume, then batches, in a local host | predicts what `run` will meet |
| Project (`project.rs`, `config.rs`, `commands/init.rs`, `schema.rs`, `plan.rs`, `generate.rs`) | the configuration, committed schemas, the committed key space, plans, generated code | `init`, `schema export`, `plan`, `generate`, each with or without `--force` | people edit the source and the plans between any two commands |
| Gate (`commands/check.rs`) | none (reads) | `check --fail-on deny`, `warn` or `info` | reads the source and everything committed |
| Schema crate (`model.rs`, `diff.rs`, `plan.rs`, `parse.rs`) | none | schemas, classification of changes, plan validation, key-space findings, parsing | the commands and the derives call it |
| Code generation (`codegen.rs`, `crates/soroban-migrate-macros`) | none | the `up` of `generate`; the `up` and `down` of `#[derive(Migration)]` | produces the `up` and `down` the executor calls |

What makes it hard: the index is read at a position that was decided several
transactions ago while others append to it; the total of a run is a moving target;
the version must flip exactly with the last key; an abort, a rerun, a rollback and a
second migration start from whatever their predecessors left; a reset index keeps
its pages; and an operator cannot always tell whether a call was executed. Off chain,
the gate judges files that were written at different times from a source that is
edited in between, and one entry can be harmed in many ways by a change of its shape,
a plan that misdescribes it, or code that visits it twice.

What makes each part correct:

- **Index**: a position, once readable, never changes and is never missing, until the
  index is discarded as a whole; a membership scan misses nothing a walk visits; the
  footprint counts the pages the length takes.
- **Executor**: a key registered where migrations walk is never lost; a completed run has left nothing
  it manages in the old shape, whatever was written meanwhile; the cursor counts
  keys really carried; the version moves only with the last key; a run ends.
- **Rollback**: success means that no entry is left in the new shape, and that the
  old index lists every entry; otherwise it must fail, not succeed.
- **Operator driver**: however its runs, calls that land late and other callers
  interleave, progress is never lost, a rollback is never walked forwards, no run goes
  on for ever, and what a run reports is true.
- **Dry run**: what a replay of a snapshot counts is true of the ledger, also when others
  have acted on it since; of a replay cut short the count is too low.
- **Preflight**: the key audit reports an orphan only when there is a reason.
- **Diff and gate**: a change is denied whenever an entry can break by it; what
  passes the gate is a source whose breaking changes are declared, and whose keys and
  records stay reachable.
- **Generated code**: a visit loses no value that the plan does not give up, spares what
  the new build wrote, does what the derive does, and `down` takes it back.
- **Write path**: an entry listed under a version is never older than that version.

## Modules

| Module | Models |
| --- | --- |
| `KeyIndex` | one version's index as a value: `index.rs` as operators, for every page size |
| `AppendLog` | abstract: a log that only grows at its end, or is discarded as a whole |
| `IndexLog` | one index under registrations and resets; implements `AppendLog` |
| `IndexLoops` | the two loops over an index, as `range` and a batch write them |
| `Migration` | one contract instance: version, record, every index, the shapes of the entries, the build it runs; one action per call of the executor, rollback, version gate and write path |
| `Lifecycle` | abstract: the life of a migration record, with the indexes reduced to their lengths; `Migration` implements it |
| `RunDriver` | `Lifecycle` composed with operators running `soroban-migrate run --submit` |
| `DryRun` | the dry run's replay, as a function of the state of `RunDriver`'s contract |
| `Preflight` | the read-only key audits, as functions of the state of `Migration` |
| `Schema` | fields, shapes, sets of schemas, and entries: what is written, decoded, written back |
| `SchemaDiff` | plans, the findings of a diff, plan validation, key-space findings |
| `GeneratedMigration` | what generated and derived `up` and `down` do to an entry |
| `Project` | a source and its migrations directory: people, commands, and the gate as an operator |
| `MCMigration`, `MCRunDriver`, `MCProject` | the instances TLC checks |
| `KeyIndexProofs`, `IndexLogProofs`, `MigrationProofs`, `ForwardProofs`, `LifecycleProofs`, `RunDriverProofs`, `SchemaDiffProofs`, `ProjectProofs` | lemmas and theorems |

### KeyIndex, IndexLog and IndexLoops

An index is `[len, page_count, pages]`. `Register` follows `register`: the page of
slot `len` gets the key pushed onto *whatever it holds*, then the summary is
written. `Reset` follows `reset`: only the summary goes. The other modules use
closed forms: `RangeOf` for a window, `RegisterAll` for the keys of a batch.
`IndexLoops` has the loops themselves, as recursive functions: `PageWalk` is the
walk of `range` (first page from an offset, whole pages, last page up to an offset),
`RegisterLoop` one `register` after the other. `RangeWalksPages` and
`RegisterAllIsARegisterLoop` say that they agree with the closed forms.
`len` is a `u32`; its ceiling is the constant `MaxLen`, and an action that would
pass it is disabled, which is the panic of the checked build.

`AppendLog` leaves open which key a registration adds. Before a reset it is the one
registered; after one it need not be (see below), and a repaired `reset` would refine
the same specification. What both walks rest on is that no position moves.

### Migration

An entry is abstracted to the version of its shape (`Absent` when there is none),
which is what `up`, `down` and the properties tell apart. `Up` and `Down` are what
the trait demands of every implementation (`migration.rs:143-212`): idempotent,
by shape, leaving foreign keys alone, an error reverting the call. Which keys an
implementation manages (`Managed`) and which entries it refuses (`Broken`) are
constants.

| Action | Code |
| --- | --- |
| `Begin`, `Batch`, `Abort`, `Clear` | `executor::begin`, `batch`, `abort`, `clear` |
| `RollbackBegin`, `RollbackBatch` | `rollback::begin`, `batch` |
| `Initialize`, `Adopt` | `version::initialize`, `adopt` |
| `Put`, `PutUnindexed`, `Remove` | `store.rs` |
| `RegisterKey` | `index::register` called directly (backfill) |
| `Deploy` | the effect of a fleet promotion on one instance |

Calls that answer without writing (a `begin` on a run in flight, a `batch` on a
completed one, every refusal) change nothing and need no action.

The environment operators (`Declare`, `Application`, `Upgrade`, `Downgrade`) are
not the code's conditions. They are the discipline the documentation asks of an
application: the version is declared once, as the one the entries' shape has; a key the
index knows is not written behind its back; builds ship in order, the previous one only
around a rollback. `Init` is a contract that predates the framework: a build of any
version, with any of that version's entries, none of them indexed. `Declare` may follow
at once or after the first writes through the store, by `initialize` or by `adopt`, at
any version; a second `adopt`, of another version, is the operator's mistake that
`version.rs:78-79` wants to be visible, and is left out.

`registered` and `stranded` are history variables: the keys registered and not removed,
and those of them listed under version 1 alone because they were put before a later
version was declared.

### Lifecycle

What the executor and the rollback promise about the version, the record and the
number of keys, whatever the keys are. `Migration!Life` is the refinement mapping:
the lengths of the indexes, the version and the record as they are. Windows,
cursors and totals are computed as in `Migration`; keys, pages and entries are gone,
and with them the reasons an individual call may fail. Fairness and liveness are not
part of it.

### RunDriver

An operator's run is where it is (`idle`, `status`, `begin`, `batch`), its arguments
and its batch count. The driver keeps nothing between runs (`commands/run.rs:5-10`),
and neither does the model, `report` apart, which is the exit of the last run.

| Action | Code |
| --- | --- |
| `Start` | the argument checks of `run` |
| `QueryStatus` | the status call and what `run` decides on it |
| `ExecuteBegin`, `ExecuteBatch` | the submitted call reaches the ledger: the vault's `begin_migration` (preflight and `executor::begin`) and `migrate_batch` |
| `ReadState`, `ReadOutcome`, `ReadFailure` | `run` reads the child's output; the stall, done and `--max-batches` exits of the loop |
| `TimeOut` | `run_with_timeout` kills the child and the run ends; the call may still be under way |
| `ExecuteLate` | such a call is executed after all, or dropped |
| `Others` | users who register keys, and manual calls of abort, confirm and rollback |

Execution and reading are separate steps because others act between them. An
invocation may also fail for a reason that is not modelled (an `up` that refuses, a
fee, a malformed output), at any time. An operator has at most one call under way
from earlier runs: a newer one takes the place of an older one, which is then
dropped. Two late calls at once are those of two operators.

### DryRun and Preflight

Both only read, so they add no action: they are asked in every state, and their
properties relate the answer to the next step of the contract. `ReplayCursors` is the
fork's cursor after each call (nobody else acts on a fork), `Batches`, `Completes` and
`Stalls` are the exits of the loop in `replay`, `Reported` the numbers that
`print_report` names. A replay that stops at `--max-batches` says so
(`dry_run.rs:272-278`) and all the same that "the migration needs N transactions"
(287-292), with the number of those it made. `ReplayPredicts` states what is true: a
complete replay's count is exact, that of one cut short is too low. What a batch costs is
left out, so every batch fits.
`Orphans` and `KeysAreIndexed` are `count_orphans` and `assert_keys_indexed`;
`assert_upgradeable` is the guard `Upgradeable` of the vault's `begin_migration`.

### Schema, SchemaDiff and GeneratedMigration

A type is a base type, whether it was optional, and a spelling: what `diff.rs`
compares. A base type is a text, and `Encoding` says which texts are stored alike: a
respelling (`soroban_sdk::Address` and `Address`), two names for one type (`Vec<u8>` and
`Bytes` are taken as not alike by `model.rs:181-184`), or two struct types with the same
fields. `diff.rs:571` compares the texts, so that all of these are a retype, and denied
until a conversion is declared, although `model.rs:224-225` says that the field diff
normalises what it compares. Whether one type's values decode as another is taken to be
an equivalence. An entry is a map from names to values, each with its base type, the
field it was written for, who wrote it (the old build, the new one, an initialiser) and
whether a conversion meant for another type was applied to it, which is
what loss and overwriting are about. The decoder belongs to the ledger: missing optional
fields are `None`, missing required fields and values of a base type that is stored
differently trap, unknown names are dropped (`Decodes`, `TrapsAt`, `Read`).

Every kind of finding of `diff_with_plan` is a set of fields, with the severity the plan
gives it. A migration is a record of what the emitted code assigns: optional fields it
fills when empty (`fill`), fields it assigns unconditionally (`assign`), and fields that
take over an old value (`consume`, through the shadow struct). `Visited` follows the
emitted body: decode through the new shape or skip, read the old names, decide whether
anything changes, write back. `renamed_from` picks one of several old names in map
order; the model picks any, the same one each time.

### Project

| Action | Code |
| --- | --- |
| `EditSource`, `EditKeys`, `EditPlan`, `FillIn` | people |
| `Initialise` | `init`, with or without `--force` and `--no-snapshot`; an export that fails leaves the configuration |
| `Export` | `schema export`: writes in order up to the first snapshot it may not overwrite; the key space comes last and is written over |
| `DraftPlan` | `plan`, with or without `--force` |
| `Generate` | `generate`, with or without `--force` |

`check` writes nothing: `CheckPasses` is its exit, from the severities of source drift,
key space, name families, gaps, pairs and the note on generated code. The structs are
`BalanceV1`, `BalanceV2`, ...: a schema is named after its struct unless the attribute
names it, so that forgetting the name makes a family of suffixed names.

The source's key enums are a sequence of files, each a sequence of enums: the first key
enum of a file is taken and later ones are passed over (`KeySpaceOf`,
`parse.rs:245-251`); key enums in two files fail the commands (`KeySpaceFails`).
`KeysStayReachable` is about the enum that is taken. A second one in its file is never
compared with anything and can change under stored entries, although
`project.rs:182-185` calls two of them a mistake that is not to be resolved silently.

## Runs

| Run | Checks |
| --- | --- |
| `index_paging` | registrations and resets in any order: `NeverCorrupt`, the log refinement, `contains` against a walk, the footprint, and the two loops against their reference definitions. Keys 2, page size 2, ceiling 5: three pages, the last one short; a page may keep at most 3 keys before a reset (`MaxStale`), so that resets of resets occur |
| `forward` | three versions, declared at any of them before or after the first writes, two migrations and one that skips a version, a key no migration manages whose entry is refused in the second shape; aborts, restarts, live writes, removals, backfill and deployments: four safety invariants, `VersionMovesWithTheLastKey`, and `OnlyAnAbortedRunOrphansKeys` of the preflight |
| `rollback` | rollbacks too: `RollbackRevertsEverything`, the refinement of `Lifecycle`, and both liveness properties |
| `rerun_leaves_old_shape`, `aborted_rollback`, `late_adoption` | disagreements, see below |
| `drivers` | two operators, ceiling 3, batches of at most 2 keys, `--max-batches` 2: `NeverStalls`, `DoneAnswersAreTrue`, `ResumingKeepsProgress`, `RollbackIsLeftAlone`; and, of a dry run taken in any of these states, `ReplayPredicts` |
| `drivers_finish` | two operators under fairness: `EveryRunEnds`, `MigrationFinishes`. Ceiling 2, one key per batch and `--max-batches` 2: a run turns its loop, stops at its limit, or times out before, so that a migration of two keys takes one run or several |
| `gate` | a project under edits and commands in any order: the diff against what breaks (`DiffDeniesWhatBreaks`), the draft against what generate accepts (`FilledDraftIsAccepted`), the gate (`SourceBreaksAreNamed`, `WarnGateMeansReadable`, `KeysStayReachable`, `GeneratedFromCommittedShapes`), and what generated code does to entries (`UpKeepsWhatTheNewBuildWrote`, `NothingElseIsLost`, `DerivedMatchesGenerated`, `DownUndoesUp`) |
| `required_fields`, `moved_namespace`, `second_visit` | disagreements, see below |

Bounds: two keys suffice because every property is about one key among others that
occupy positions; a page size of 2 with a ceiling of 4 gives windows inside a page,
at its end and across two pages, a key registered twice, keys written before,
during and after a run, and a rerun over a filled index. `Limits` holds 0 and
one more than `MaxBatch`, which `batch` must refuse. Deadlock is not checked
because the system really may stop: a contract with full indexes, or one nobody
calls.

In `gate`, three names, three base types of which two are stored alike, and two spellings
give every kind of finding with an unrelated field beside it, renames onto a free and onto a taken name, and two renames
to one target. `MCProject` lists the shapes, the pairs a project may start from, and the
sources it may be edited into, mistakes included: a missing name, version or struct, a
version skipped or used twice. One of the key enums marks no variant for the
framework; a source may have two key enums, in two files or in one, in either order. `MaxEdits` = 2 edits of source, key enums and plans in
all: what one edit can break, the second can hide. Commands, and filling in drafts, are
not bounded. People may stop editing, so deadlock is not checked; nothing is fair.

Fairness (`FairSpec`): somebody keeps sending batches while a run, or a rollback,
is in flight. That is the loop of `soroban-migrate run`, which exists for nothing
else, and a valid transaction is included some time. Nothing else is fair: nobody
must begin, abort, clear, write or deploy. `MigrationFinishes` allows three ways
out: the run is over, the new index is at its ceiling, or `up` goes on refusing an
entry; `RollbackFinishes` also allows `OrphanedEntries`.

In `RunDriver` the fair steps are these. A run in progress goes on, because its child
answers or is killed at the deadline (`Proceed`; the deadline is the default of the
configuration). Operators run the command again after it ended (`Start`): the code
asks them to (`commands/run.rs:127-129`). The network does not fail for ever: a run
that can query the status again and again is answered some time, and a batch that can
be executed again and again does its work some time (strong fairness of
`QueryStatus` and `Advance`, because a timeout disables both). The fairness is on each
operator's own steps. `EveryRunEnds` needs only the first; `MigrationFinishes` needs
all of them. Abort, rollback and late calls stay free to interfere in both.

## What the runs found

- **A reset index reads back its old keys, and a rerun after a rollback leaves an
  entry behind** (`rerun_leaves_old_shape`). `index.rs:214-216` says the pages a reset
  leaves behind are overwritten by the first write to each; `register` reads the page
  and appends to it. The consequence: write a key while the first run is in flight,
  roll back, clear, migrate again. The rebuilt index has the right length but lists old keys in place
  of that one; the second run completes and advances the version with the entry
  still in the old shape. `rollback.rs:83-86` claims that the rebuild reproduces the
  index exactly. For the same reason `contains` answers true for keys that no walk
  visits after a reset (`ContainsFindsRegisteredKeys` allows it only then), and
  `footprint_entries` does not count the pages that a reset leaves beyond `len`.
- **Aborting a rollback wedges the contract** (`aborted_rollback`). `abort` accepts
  any active record; after a rollback's the version is the newer one, so neither
  `executor::begin` nor `rollback::begin` is possible. `executor.rs:303-306` says a
  later `begin` starts from zero.
- **A key put before a later version is adopted is never migrated** (`late_adoption`).
  Without a recorded version `store::put` registers under version 1
  (`store.rs:67-81`); `adopt(2)` leaves that index behind, the migration from 2 to 3 walks
  the index of 2, completes, and the entry stays in its old shape. `store.rs:69-71` calls
  the fallback the only sensible answer, `executor.rs:215-219` says that a key can never
  fall out of view. `NoKeyForgotten` and `NothingLeftBehind` are about the keys that are not
  `stranded` like this; the preflight reports all that are.
- **A retyped field may be converted twice** (`second_visit`). Whether the old value is
  still there is decided by decoding the field as the old type. Where the new type is
  stored like the old one (a renamed struct type, an alias, the same integer in another
  unit) the converted value decodes as the old type too, and every further visit, or one
  of an entry the new build has written, converts again. `codegen.rs:27-32` and the header
  of the generated file (306-309) say that a second visit sees `None`.
  `UpKeepsWhatTheNewBuildWrote` exempts these fields. In the other cases of a retype under
  one name the conversion never runs: where the new type is stored differently, the entry
  does not decode through the new shape and is skipped (`codegen.rs:426-429`); where it is
  stored alike and optional, the field is never empty (`Consumed`).
- **Initial values of fields that became required** (`required_fields`).
  `diff.rs:614-615` says the migration sets entries without a value to the initial one.
  The generated `up` skips these entries, because it decodes through the new shape first
  (`codegen.rs:407-414`), and sets the others, overwriting their values (451-457). So
  `UpKeepsWhatTheNewBuildWrote` and `NothingElseIsLost` exempt the fields a plan
  initialises unconditionally.
- **Adding a variant can move the framework's namespace** (`moved_namespace`). A key
  enum may leave its framework variant unmarked, if it is named `Migration`
  (`crates/soroban-migrate-macros/src/lib.rs:84-85`). When the source then gains a marked
  variant, that one is the namespace. The diff compares the marks of variants it has on
  both sides and reports any other as added, at information (`diff.rs:182`), so that
  `check` passes, while the new build looks for version, cursor and index where nothing
  was written. `README.md:155` and `diff.rs:171` call an added variant safe, and
  `README.md:153` calls a moved namespace denied. `KeysStayReachable` claimed that the
  namespace stays for every key space until the attempt to prove it failed at this case;
  it now claims it for key spaces that mark their variant, and is a theorem.
- Not a run: `migration.rs:88-90` says that a skipped key must not be added to the
  new index; `executor.rs:215-220` adds it, and says why. The model follows the code.

Observations made while translating, which the model follows and no run is about:

- Plans. Two renames to one name, or a rename onto a field that was there, give up a value
  without a finding (`diff.rs:672-676`; `RenamedAway`). A retyped field that also became
  required is only asked for a conversion, so entries without a value stay unreadable.
  A `rename` and an `init` for the same field are both accepted; the `init` is ignored.
  A rename whose old name is still a field is made again on every visit.
- `run` exits with success at `--max-batches` (`run.rs:126-132`); `run.rs:22-25` and 61-63
  say that it is reported as a failure. No interleaving is involved, so no run is spent
  on it.
- Verdicts. `diff.rs:379-384` says of safe-with-lazy-migration that "un-migrated entries
  stay readable"; a declared retyped or added required field gets that verdict, too, and
  traps. A rename of one type to a required field is rated as information and traps until
  it is migrated (`WarnGateMeansReadable` exempts it).
- Gate. Only what the source declares is compared with what is committed, not the reverse.
  A generated file is looked for and never compared with its plan. Placeholders pass.
  `Balance` beside `BalanceV2` is not taken for a family. `--fail-on info` always fails.
  Two key enums in one file: the first one counts. A key enum that is only renamed is an
  information finding, which is left out.
- Files. `init` writes its configuration before the export that may fail
  (`commands/init.rs:68`), after which `init` needs `--force`. Exports overwrite the key
  space without asking. The refusal of a snapshot speaks of a `--force` that
  `schema export` does not have.
- Dry run. The number of transactions in its report is computed from all entries also
  when the replay resumed an earlier run, and then disagrees with the calls it counted
  (`Reported`). A batch that does not fit is printed and the exit is success, which the
  comment calls refused.
- Preflight. `assert_upgradeable` passes on a rolled-back record, on which `begin` then
  refuses until `clear`. `assert_keys_indexed` reports keys written during an aborted run.
- `status` reads the version and the record in two calls (`commands/status.rs:42-43`); a
  batch in between makes a pair that never existed.
- Fleet. `fleet.rs:37-45` puts the batches before the promotion, while the old code serves.
  An old build that writes during a run registers an entry of the old shape under the new
  version, where nothing visits it again. In the model, as in the vault, a migration is
  part of the build it leads to (`Forward`), so that such a build does not run then.
- Vault. `migrations/balance_1_to_2.rs` was generated without an initial value and changes
  no entry; `src/migration.rs:3` calls the hand-written migration what `generate` writes.

## Proofs

Every theorem is proved for all values of the constants under these assumptions:
`KeyIndexAssumption` (the page size is positive, the ceiling a natural number),
`MigrationAssumption` and `LifecycleAssumption` (the constants have their types),
`IndexLoopsAssumption` (the bound on the loops compared is a natural number),
`RunDriverAssumption` (the driven migration is one of the build's, `--max-batches` is
positive), `SchemaAssumption` (which types are stored alike is any classification of
them), and `ProjectAssumption` (bounds are natural numbers, sources declare shapes and
version numbers within them, have finitely many files, and an enum has no two variants of
one name, which Rust would refuse). None says anything about how keys, migrations, limits,
shapes or sources relate.

Every invariant and action property of a passing run, and both refinements, is the
statement of a theorem.

*Index.* With resets a page may hold more than the summary places on it, never
less. The inductive invariant is therefore `Covers`: every page is at least as long
as its share of `len` (`Fill`). From it: `IndexTypeCorrect`, `ReadsNeverCorrupt`;
it also gives the refinement, `IndexIsAnAppendLog`: a registration appends to the log that
the positions below `len` read, at a page boundary as within one, and a reset discards it.
`ContainsIsSound` adds that what was registered since the last reset is found
(`ContainInv`), although it may not be where a walk looks. `FootprintIsExact` needs
that `page_count` is the page of the last slot plus one (`FootprintInv`); no action
compares it with the pages, so that it has to be carried along.

*Loops.* The recursive functions of `IndexLoops` are compared with their closed forms
by the argument of the least counterexample: two functions that agree at 0, and at
`n + 1` whenever they agree at `n`, agree (`LoopsAgree`, from the well-foundedness of
the natural numbers). For `RegisterLoops` the step is that registering one more key
after `RegisterAll` is `RegisterAll` of one more (`RegisterOneMore`). For `RangeWalks`
it is that the pages walked so far are the positions up to the end of the last one
(`PartOfPage`, `PositionsGoOn`), for which the pages must cover what the summary
advertises.

*Migration.* `TypeOK` alone is not inductive: that the cursor stays below the
ceiling needs the windows to be readable, which needs `Covers` of every index; that
a rollback's window lies in the index needs its total to be at most that index's
length; and the version a write is registered under needs the record to agree with
the recorded version. `RecordInv` joins the three. It gives `MigrationTypeCorrect`,
`BatchesReadTheirWindow` (no batch ever meets `CorruptIndex`) and `VersionMoves`.
`MigrationImplementsLifecycle` proves the refinement: initial states map to initial
states, and every step of `Next` to a step of `LifeNext` or to a stutter. It needs
`RecordInv` too, because a rollback's window has the length that `Lifecycle` computes
only when the total is the length of the index.

*Rollback.* `RollbackReverts` looks at one step, the batch that ends a rollback, but has
to know what the earlier ones did. `RollbackInv` adds that the keys a rollback has
passed are not of the new shape, unless a registration has grown the index
(`VisitedAreReverted`), and that every key on any page, the leftovers of resets
included, has been registered (`PagesHoldRegistered`). The second is needed because an
application may write behind the back of the index only a key the index does not know.
Pages after a reset need not be `Clean`, so the proof works on positions and not on the
set of listed keys.

*Forward.* The safety invariants of `ForwardSpec` are not inductive one by one.
`ForwardInv` joins them with what they rest on: the record and the build agree
(`ForwardRecord`: nobody runs a migration that the build does not have), every index is
`Clean`, an index lists only registered keys, an index of a version ahead of the build
is empty, a completed record's new index lists every tracked key, and a key that a late
declaration stranded is in no index but the first (`StrandedApart`). `Clean` is
where the rollback would break it, and `rerun_leaves_old_shape` is how. Each invariant
needs the others: a batch keeps `CursorCountsCarriedKeys` because the window it walks
has never changed, `IndexMatchesShapes` because the index it walks is of the shape
`up` expects, and `NoKeyForgotten` because the keys behind the cursor are those carried.
`CompletionLeavesNothing` follows without a step. `OnlyAbortsOrphan` is an action
property: outside a run a step lists whatever it registers in the index the audit asks,
and the batch that completes a run lists every tracked key there, whatever runs were
aborted before.

*Drivers.* `LifeInv` is the analogue of `RecordInv` over lengths
(`RecordAgreesWithVersion`). `DriversFollowTheLifecycle` shows that every step of
`RunDriver`, late calls included, is a step of `LifeNext` or leaves the contract
alone, so `LifeInv` holds there (`DriverInv` adds the drivers' types and
`NeverStalls`). `NeverStalls` follows because a running record's total is at most the
old index's length, so a window is empty only when nothing is left.
`ResumingIsSafe`, `RollbacksAreLeftAlone` and `DoneAnswersHold` are action properties
proved step by step from the same invariant, for any number of operators. For the second,
a driver's step leaves a contract that is rolling back as it is (`DriversKeepAway`), and
among the others only a rollback batch takes the record on, appending to the other index
(`RollbackKept`); users may grow the walked one, which a later batch then refuses.

*Dry run.* The replay is recursive: the cursor of the fork after each call. Its value is
first brought into closed form, `min(start + b * limit, n)` after `b` calls
(`CursorsClosed`, again by the least counterexample), and the number of calls to a
number that is least with a property (`FirstOf`). Then three facts of arithmetic: one
key more costs at most one call more, a batch executed is exactly one call less, and the
count is the division that the report makes, up to `--max-batches`, where a replay that
has not finished stands for any larger number. `ReplaysPredict` applies them to each step
of the contract, whose record and lengths agree by `LifeInv`.

*Diff.* `DiffIsExact`: for any two shapes the diff without a plan denies the fields where
some entry of the old build traps or loses a value, and those retyped between texts
stored alike, and no others. One direction exhibits the
entry: the full one, or the one that leaves out the field that became required; the other
goes through the ways an entry can break. `BreaksAreDeclared`: under a plan that leaves
nothing denied, each of these fields is one the plan mentions.

*Project.* `ProjectInv` joins types with what the gate and the generator rest on: a name
and version have one snapshot (`AreSnapshots`), which exports preserve wherever they
stop (`ExportAdds`), so that a lookup keeps its answer (`CommittedStays`); and a
generated migration lies between two such snapshots and consumes under its own name only
where the base type has changed (`IsCode`). Types alone are not inductive, because a
lookup may then choose another snapshot after an export. From it:
`ProjectTypeCorrect`, `MigrationsStayCommitted`, `CommittedDiffsMissNothing`,
`NewWritesSurvive`, and the two theorems about the gate. `GateIsSound` follows from the
drift check (the source's shapes are the committed ones), the greatest version below one
that is declared (which exists by well-foundedness, and is the one before by the gap
check) and `BreaksAreDeclared`; `WarnGateIsSound` goes through the ways an entry can trap.
`PassingKeepsKeys` takes each committed variant through the findings on key spaces that
a passing gate cannot have; that only one file declares key enums comes from the refusal
of several.

*Generated code.* `FilledDraftsGenerate`: the draft names every denied field, a filled-in
plan has no placeholder left, and it names nothing that the diff does not find, so that
it is not stale either. `GeneratedLosesNothingElse`: what an accepted plan does not give
up is kept by the decoder, taken over by a rename or a conversion, or skipped with the
entry, and no conversion meets a value of another type on a first visit; `DeriveAgrees`: within the derive's reach both expansions assign the same fields,
and differ only in decoding entries they have nothing to do with; `DownIsInverse`: `down`
clears what `up` filled, and an old entry has none of those fields.

Only model-checked: the liveness properties `MigrationFinishes` (of `Migration` and of
`RunDriver`), `RollbackFinishes` and `EveryRunEnds`. They rest on fairness, and the
prover has no rule for it or for `ENABLED` here.

## Plan

1. Done: the index, the migration, its life cycle and the operator's driver; the dry run
   and the preflight; schemas, diff, plans, generated code, the project and its gate.
   All their safety properties are proved.
2. `run_to_completion` of executor and rollback as one step of `Migration`, which is a
   sequence of batches that nobody interrupts; that it implements those batches is the
   theorem to state.
3. The vault's statistics entry, and several instances that resolve their build through
   the fleet's tags.

## Not modelled

- Storage archival and TTLs (the ledger's arithmetic, outside the source), resource
  metering, and with it the dry run's verdict on a batch that is too expensive.
- Rust syntax, types as text, doc comments, token generation, file formats, the settings
  of the configuration, argument parsing, messages. Of the CLI's options, the narrowing of
  `check` to a shape or a pair, `--no-source` and `--json`.
- `run_to_completion`, the vault's statistics and the fleet's tag records (planned).
- `inspect`, `status`, `schema list` and `show`: they print the state as it is.
- Storage keys, error codes and the test helpers keep no state.
