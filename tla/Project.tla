------------------------------ MODULE Project ------------------------------
(***************************************************************************)
(* A contract's source and the migrations directory committed beside it,   *)
(* as `soroban-migrate init`, `schema export`, `plan` and `generate`       *)
(* change them and `check` judges them (commands/, project.rs).            *)
(*                                                                         *)
(* People edit the source and the plans between any two commands; the      *)
(* commands are the only writers of snapshots and of generated code.  A    *)
(* command that refuses changes nothing, except that an export stopped by  *)
(* a refused snapshot keeps the ones it wrote before it, and an init whose *)
(* export fails keeps its configuration.  check writes nothing: it is the  *)
(* operator CheckPasses.                                                   *)
(*                                                                         *)
(* The structs of the source are Balance's versions, BalanceV<n>.  A shape *)
(* is named after its struct unless the attribute names it Balance, which  *)
(* is name 0 here; the others are named by their suffix.                   *)
(***************************************************************************)
EXTENDS GeneratedMigration

CONSTANTS
  InitialSources,   \* sources a project starts from
  Sources,          \* sources it may be edited into
  InitialKeyEnums,  \* key enums a project starts with, file by file
  KeyEnums,         \* key enums it may be edited to have
  MaxVersion,
  MaxEdits          \* bound on edits of source, key enums and plans

ASSUME ProjectAssumption ==
  /\ MaxVersion \in Nat
  /\ MaxEdits \in Nat
  /\ \A declarations \in InitialSources \cup Sources : \A d \in declarations :
       d.suffix \in 1 .. MaxVersion /\ d.version \in 0 .. MaxVersion /\ IsShape(d.shape)
  /\ \A files \in InitialKeyEnums \cup KeyEnums : IsFiniteSet(DOMAIN files)
  /\ \A files \in InitialKeyEnums \cup KeyEnums : \A file \in Range(files) :
       /\ DOMAIN file \subseteq Nat
       /\ \A e \in Range(file) : \A v, w \in Range(e.variants) : v.name = w.name => v = w

VARIABLES
  configured,  \* whether there is a soroban-migrate.toml
  source,      \* the `#[storage_schema]` structs of the source
  keys,        \* its enums, in the order of each file: one may be the key space
  snapshots,   \* committed schemas: [name, version, shape]
  keyFile,     \* the committed key space, empty before there is one
  plans,       \* plan files, by pair
  generated,   \* generated migrations, by pair
  edits        \* how many edits people have made

vars == << configured, source, keys, snapshots, keyFile, plans, generated, edits >>

(* A declaration; version 0 stands for any attribute that does not parse.  *)
Unparsable == 0
Declaration(suffix, named, version, shape) ==
  [suffix |-> suffix, named |-> named, version |-> version, shape |-> shape]

(* An enum of the source that may be the key space.                        *)
KeyEnum(derives, variants) == [derives |-> derives, variants |-> variants]
NoKeySpace == << >>
KeySpaces ==
  {NoKeySpace} \cup
    UNION { UNION { { e.variants : e \in Range(file) } : file \in Range(files) } :
              files \in InitialKeyEnums \cup KeyEnums }

Pairs == [name : 0 .. MaxVersion, from : 1 .. MaxVersion - 1]
Drop(file, key) == [x \in DOMAIN file \ {key} |-> file[x]]
Write(file, key, content) ==
  [x \in DOMAIN file \cup {key} |-> IF x = key THEN content ELSE file[x]]

TypeOK ==
  /\ configured \in BOOLEAN
  /\ source \in InitialSources \cup Sources
  /\ keys \in InitialKeyEnums \cup KeyEnums
  /\ \A s \in snapshots :
       s.name \in 0 .. MaxVersion /\ s.version \in 1 .. MaxVersion /\ IsShape(s.shape)
  /\ keyFile \in KeySpaces
  /\ DOMAIN plans \subseteq Pairs /\ \A p \in DOMAIN plans : IsPlan(plans[p])
  /\ DOMAIN generated \subseteq Pairs
  /\ \A p \in DOMAIN generated :
       /\ generated[p].fill \cup generated[p].assign \subseteq Names
       /\ IsPartial(generated[p].consume, Names, Names)
  /\ edits \in 0 .. MaxEdits

Init ==
  /\ configured = FALSE
  /\ source \in InitialSources
  /\ keys \in InitialKeyEnums
  /\ snapshots = {}
  /\ keyFile = NoKeySpace
  /\ plans = Nothing
  /\ generated = Nothing
  /\ edits = 0

-----------------------------------------------------------------------------
(* Reading the source.                                                     *)

(* parse_item: the shape's name is the struct's unless the attribute gives *)
(* one.                                                                    *)
Declared ==
  { [name |-> IF d.named THEN 0 ELSE d.suffix, version |-> d.version, shape |-> d.shape] :
      d \in source }

SourceFails == Conflict(Declared) \/ \E d \in source : d.version = Unparsable

(* key_space_of: derives Keyspace, or has a variant marked #[migration].   *)
IsKeySpace(e) == e.derives \/ \E v \in Range(e.variants) : v.migration

(* parse_key_space: the first such enum of a file; any after it are passed *)
(* over.                                                                   *)
KeySpacesIn(file) == { i \in DOMAIN file : IsKeySpace(file[i]) }
KeySpaceOf(file) ==
  file[CHOOSE i \in KeySpacesIn(file) : \A j \in KeySpacesIn(file) : i <= j].variants

(* key_space_from_source: one file may have one.                           *)
Declaring == { f \in DOMAIN keys : KeySpacesIn(keys[f]) # {} }
DeclaredKeySpaces == { KeySpaceOf(keys[f]) : f \in Declaring }
KeySpaceFails == Cardinality(Declaring) > 1

-----------------------------------------------------------------------------
(* People.                                                                 *)

Edit == edits < MaxEdits /\ edits' = edits + 1

EditSource ==
  /\ Edit
  /\ source' \in Sources \ {source}
  /\ UNCHANGED << configured, keys, snapshots, keyFile, plans, generated >>

EditKeys ==
  /\ Edit
  /\ keys' \in KeyEnums \ {keys}
  /\ UNCHANGED << configured, source, snapshots, keyFile, plans, generated >>

(* A directive is added to a plan, or taken out of it.                     *)
Toggled(plan) ==
  LET Flip(file, n, content) == IF n \in DOMAIN file THEN Drop(file, n)
                                ELSE Write(file, n, content)
  IN UNION { {
       [plan EXCEPT !.init = Flip(@, n, "filled")],
       [plan EXCEPT !.dropped = IF n \in @ THEN @ \ {n} ELSE @ \cup {n}],
       [plan EXCEPT !.converted = Flip(@, n, "filled")] }
     \cup { [plan EXCEPT !.renamed = Flip(@, n, new)] : new \in Names \ {n} } : n \in Names }

PlanOf(pair) == IF pair \in DOMAIN plans THEN plans[pair] ELSE EmptyPlan

EditPlan(pair) ==
  /\ Edit
  /\ \E plan \in Toggled(PlanOf(pair)) : plans' = Write(plans, pair, plan)
  /\ UNCHANGED << configured, source, keys, snapshots, keyFile, generated >>

(* Every placeholder of a plan is filled in.                               *)
Filled(plan) ==
  LET Fill(file) == [n \in DOMAIN file |-> IF file[n] = "todo" THEN "filled" ELSE file[n]]
  IN [plan EXCEPT !.init = Fill(@), !.converted = Fill(@)]

FillIn(pair) ==
  /\ pair \in DOMAIN plans
  /\ IsUnfilled(plans[pair])
  /\ plans' = Write(plans, pair, Filled(plans[pair]))
  /\ UNCHANGED << configured, source, keys, snapshots, keyFile, generated, edits >>

-----------------------------------------------------------------------------
(* Mutants: plausible slips in the definitions that follow.                *)

\* A snapshot that differs is replaced.
Export_Overwrites ==
  /\ configured
  /\ ~SourceFails
  /\ snapshots' = (snapshots \ { s \in snapshots : Declares(Declared, s.name, s.version) })
                    \cup Declared
  /\ UNCHANGED << configured, source, keys, keyFile, plans, generated, edits >>

\* The source is not compared with what is committed.
SourceDrift_None == {}

\* What is retyped gets no placeholder in the draft.
Draft_NoConversions(from, to) ==
  [EmptyPlan EXCEPT !.dropped = DeniedFields(BareFindings(from, to)) \cap FieldNames(from)]

\* Every finding gets a placeholder, one about the pair included.
Draft_EveryFinding(from, to) ==
  [EmptyPlan EXCEPT !.init = [n \in { f.field : f \in BareFindings(from, to) } |-> "todo"]]

\* Only the note about a pair counts, not its findings.
PairSeverities_NoteOnly(name, p) ==
  {IF [name |-> name, from |-> p[1]] \in DOMAIN generated THEN Info ELSE Warning}

-----------------------------------------------------------------------------
(* Commands.                                                               *)

(* Project::discover: what every command but init needs.                   *)
Opens == configured

(* Snapshots that write_schema would have to overwrite.                    *)
Refused == { d \in Declared : Declares(snapshots, d.name, d.version) /\ d \notin snapshots }

(* The order in which an export writes.                                    *)
Precedes(s, t) == s.name < t.name \/ (s.name = t.name /\ s.version <= t.version)

(* What an export leaves in the directory: the schemas up to the first one *)
(* that is refused and, after all of them, the key space, written over.    *)
ExportedSchemas ==
  IF SourceFails THEN snapshots
  ELSE snapshots \cup { d \in Declared : \A r \in Refused : ~Precedes(r, d) }
ExportedKeySpace ==
  IF ~SourceFails /\ source # {} /\ Refused = {} /\ Cardinality(Declaring) = 1
  THEN CHOOSE space \in DeclaredKeySpaces : TRUE
  ELSE keyFile

(* `init`, with or without --force and --no-snapshot.                      *)
Initialise(force) ==
  /\ ~configured \/ force
  /\ configured' = TRUE
  /\ \/ UNCHANGED << snapshots, keyFile >>
     \/ snapshots' = ExportedSchemas /\ keyFile' = ExportedKeySpace
  /\ UNCHANGED << source, keys, plans, generated, edits >>

(* `schema export`.                                                        *)
Export ==
  /\ Opens
  /\ ~SourceFails
  /\ source # {}
  /\ snapshots' = ExportedSchemas
  /\ keyFile' = ExportedKeySpace
  /\ UNCHANGED << configured, source, keys, plans, generated, edits >>

(* A version pair that a command may be asked for.                         *)
IsCommitted(pair) ==
  /\ Declares(snapshots, pair.name, pair.from)
  /\ Declares(snapshots, pair.name, pair.from + 1)
From(pair) == Lookup(snapshots, pair.name, pair.from).shape
To(pair) == Lookup(snapshots, pair.name, pair.from + 1).shape

(* draft: what the diff denies, with a placeholder where it takes an       *)
(* expression.                                                             *)
Draft(from, to) ==
  LET Of(kinds) == { f.field : f \in { g \in BareFindings(from, to) :
                       g.kind \in kinds /\ g.severity = Denied } }
      Todo(names) == [n \in names |-> "todo"]
  IN [EmptyPlan EXCEPT !.init = Todo(Of({"AddedRequired", "BecameRequired"})),
                       !.dropped = Of({"Removed"}),
                       !.converted = Todo(Of({"Retyped"}))]

(* `plan`, with or without --force.                                        *)
DraftPlan(pair, force) ==
  /\ Opens
  /\ IsCommitted(pair)
  /\ pair \notin DOMAIN plans \/ force
  /\ Draft(From(pair), To(pair)) # EmptyPlan
  /\ plans' = Write(plans, pair, Draft(From(pair), To(pair)))
  /\ UNCHANGED << configured, source, keys, snapshots, keyFile, generated, edits >>

(* `generate`, with or without --force.                                    *)
Generate(pair, force) ==
  /\ Opens
  /\ IsCommitted(pair)
  /\ pair \in DOMAIN plans \/ DeniedFields(BareFindings(From(pair), To(pair))) = {}
  /\ ~IsUnfilled(PlanOf(pair))
  /\ ~IsStale(From(pair), To(pair), PlanOf(pair))
  /\ CanGenerate(From(pair), To(pair), PlanOf(pair))
  /\ pair \notin DOMAIN generated \/ force
  /\ generated' = Write(generated, pair, Generated(From(pair), To(pair), PlanOf(pair)))
  /\ UNCHANGED << configured, source, keys, snapshots, keyFile, plans, edits >>

CommittedPairs == { p \in Pairs : IsCommitted(p) }

Next ==
  \/ EditSource
  \/ EditKeys
  \/ \E force \in BOOLEAN : Initialise(force)
  \/ Export
  \/ \E pair \in CommittedPairs :
       \/ EditPlan(pair)
       \/ FillIn(pair)
       \/ \E force \in BOOLEAN : DraftPlan(pair, force) \/ Generate(pair, force)

Spec == Init /\ [][Next]_vars

-----------------------------------------------------------------------------
(* `check`.                                                                *)

(* collect_drift: only what the source declares is looked up.              *)
PlacedIn(schemas, d) == d \in schemas
SourceDrift ==
  IF SourceFails \/ \E d \in Declared : ~PlacedIn(snapshots, d) THEN {Denied} ELSE {}

(* collect_key_space.                                                      *)
KeySpaceDrift ==
  IF KeySpaceFails \/ (DeclaredKeySpaces = {}) # (keyFile = NoKeySpace) THEN {Denied}
  ELSE { f.severity : f \in UNION { KeySpaceFindings(keyFile, space) :
                                      space \in DeclaredKeySpaces } }

(* collect_version_suffix_families: names that differ in their suffix.     *)
FamilyDrift ==
  IF Cardinality(NamesIn(snapshots) \ {0}) > 1 THEN {Denied} ELSE {}

(* check_pair and the gaps of check_shape.                                 *)
PairSeverities(name, p) ==
  IF p[2] # p[1] + 1 THEN {Denied}
  ELSE LET pair == [name |-> name, from |-> p[1]]
           found == Findings(From(pair), To(pair), PlanOf(pair))
           note == IF Verdict(found) = Denied \/ pair \in DOMAIN generated
                   THEN Info ELSE Warning
       IN { f.severity : f \in found } \cup {note}

CheckSeverities ==
  UNION { SourceDrift, KeySpaceDrift, FamilyDrift,
          UNION { UNION { PairSeverities(name, p) : p \in ConsecutivePairs(snapshots, name) } :
                    name \in NamesIn(snapshots) } }

(* --fail-on (FailOn::threshold).                                          *)
Threshold == [deny |-> Denied, warn |-> Warning, info |-> Info]

(* The exit of `check --fail-on`.  A stale plan ends it with an error.     *)
CheckPasses(failOn) ==
  /\ Opens
  /\ snapshots # {}
  /\ \A pair \in CommittedPairs : ~IsStale(From(pair), To(pair), PlanOf(pair))
  /\ WorstOf(CheckSeverities) < Threshold[failOn]

-----------------------------------------------------------------------------
(* Properties of the diff and the draft.                                   *)

(* The bare diff denies every field at which an existing entry can break,  *)
(* and errs on that side alone, where it has to: what else it denies are   *)
(* fields whose base type is another text with the same encoding.  "The    *)
(* diff cannot know they are interchangeable" (diff.rs diff_with_plan,     *)
(* model.rs normalize_type).                                               *)
DiffDeniesWhatBreaks ==
  \A pair \in CommittedPairs :
    LET denied == DeniedFields(BareFindings(From(pair), To(pair)))
        breaks == Breaks(From(pair), To(pair))
    IN breaks \subseteq denied /\ denied \ breaks \subseteq RetypedAlike(From(pair), To(pair))

(* Filling in the placeholders that `plan` drafts is all that `generate`   *)
(* asks for: no draft is stale, short of a declaration, or undecidable     *)
(* (commands/plan.rs draft, codegen.rs generate).                          *)
FilledDraftIsAccepted ==
  \A pair \in CommittedPairs :
    LET plan == Filled(Draft(From(pair), To(pair)))
    IN /\ ~IsStale(From(pair), To(pair), plan)
       /\ CanGenerate(From(pair), To(pair), plan)

-----------------------------------------------------------------------------
(* Properties of the gate.                                                 *)

(* A check that passes has seen every shape the source declares, with the  *)
(* version before it, and the plan names every field at which the step     *)
(* between them can break an entry: no edit of source or plan, in any      *)
(* order with the commands, gets a break past the gate undeclared          *)
(* (commands/check.rs).                                                    *)
SourceBreaksAreNamed ==
  CheckPasses("deny") =>
    \A d \in Declared :
      (\E v \in VersionsOf(snapshots, d.name) : v < d.version) =>
        LET pair == [name |-> d.name, from |-> d.version - 1]
        IN /\ IsCommitted(pair)
           /\ Breaks(From(pair), d.shape) \subseteq Mentioned(PlanOf(pair))

(* `check --fail-on warn` "also fails on a change that requires the        *)
(* migration to have run": when it passes, no entry that has not been      *)
(* migrated traps, but at a field the plan renames a value to              *)
(* (check.rs FailOn; renames of one type are rated Info).                  *)
WarnGateMeansReadable ==
  CheckPasses("warn") =>
    \A pair \in CommittedPairs : \A entry \in EntriesOf(From(pair), "old") :
      TrapsAt(entry, To(pair)) \subseteq Range(PlanOf(pair).renamed)

(* The key that a build with this space writes the framework's records     *)
(* under (the derive of Keyspace): the marked variant, or Migration.  It   *)
(* refuses a second mark.                                                  *)
Marked(space) == { v.name : v \in { w \in Range(space) : w.migration } }
Builds(space) == \A n, m \in Marked(space) : n = m
Bookkeeping(space) ==
  IF Marked(space) # {} THEN Marked(space) ELSE {"Migration"} \cap VariantNames(space)

(* When check passes, no two files of the source declare a key space, and  *)
(* every key that the committed one can have written still decodes in the  *)
(* enum that is taken for it, the first of its file; where the committed   *)
(* one marks the variant of the framework's records, a source that builds  *)
(* finds its version, cursor and index where it left them.  Of an enum     *)
(* after that one in the same file nothing is said (diff.rs                *)
(* key_space_findings, check.rs collect_key_space, parse.rs                *)
(* parse_key_space).                                                       *)
KeysStayReachable ==
  CheckPasses("deny") /\ keyFile # NoKeySpace =>
    \E f \in Declaring :
      LET space == KeySpaceOf(keys[f])
      IN /\ Declaring = {f}
         /\ \A v \in Range(keyFile) :
              \E w \in Range(space) : w.name = v.name /\ w.payload = v.payload
         /\ Marked(keyFile) # {} /\ Builds(space) => Bookkeeping(space) = Bookkeeping(keyFile)

(* A key space that passes check keeps the framework's records where they  *)
(* are: moving them is denied, and a variant that is added is safe (README *)
(* of the repository; it does not hold where the variant is one that goes  *)
(* unmarked and by the name of Migration, and the added one is marked).    *)
NamespaceStays ==
  CheckPasses("deny") /\ keyFile # NoKeySpace =>
    \E space \in DeclaredKeySpaces :
      Builds(space) => Bookkeeping(space) = Bookkeeping(keyFile)

-----------------------------------------------------------------------------
(* Properties of the code that is generated.                               *)

(* A generated migration is between the shapes that are committed, whatever *)
(* was exported after it (project.rs write_schema).                        *)
GeneratedFromCommittedShapes ==
  \A pair \in DOMAIN generated :
    /\ IsCommitted(pair)
    /\ generated[pair].from = From(pair) /\ generated[pair].to = To(pair)

(* The names a migration stores a value for although a build that has the  *)
(* new shape may have written one: those it assigns unconditionally, the   *)
(* targets of a rename whose old name is still a field, and a field that   *)
(* takes over its own value where the old type's code reads the new one's. *)
Overwrites(code) ==
  code.assign
    \cup { n \in DOMAIN code.consume :
             IF code.consume[n] = n THEN n \in RetypedAlike(code.from, code.to)
             ELSE code.consume[n] \in FieldNames(code.to) }

(* The new build writes entries while the migration runs.  A visit leaves  *)
(* every other value it wrote alone, and does not skip over those it may   *)
(* change (codegen.rs: "the executor may visit the same key more than      *)
(* once").                                                                 *)
UpKeepsWhatTheNewBuildWrote ==
  \A pair \in DOMAIN generated :
    LET code == generated[pair]
    IN \A entry \in EntriesOf(code.to, "new") :
         \A n \in DOMAIN entry \ Overwrites(code) :
           LET after == Up(code, entry).entry
           IN n \in DOMAIN after /\ after[n] = entry[n]

(* Old names whose value a rename gives up without a finding: the new name *)
(* was a field already, or another old name is renamed to it.              *)
RenamedAway(from, plan) ==
  { old \in DOMAIN plan.renamed :
      \/ plan.renamed[old] \in FieldNames(from)
      \/ Renames(plan, plan.renamed[old]) # {old} }

(* Whatever plan `generate` accepts, the code it writes for it loses no    *)
(* value of an old entry and applies no conversion to one that is not of   *)
(* its type on a first visit, but those of fields the plan drops, renames  *)
(* away, or gives an initial value (codegen.rs generate, diff.rs).         *)
NothingElseIsLost ==
  \A pair \in CommittedPairs :
    LET plan == PlanOf(pair)
        code == Generated(From(pair), To(pair), plan)
        spared == plan.dropped \cup RenamedAway(From(pair), plan) \cup code.assign
    IN CanGenerate(From(pair), To(pair), plan) /\ ~IsStale(From(pair), To(pair), plan) =>
         \A entry \in EntriesOf(From(pair), "old") : \A n \in DOMAIN entry \ spared :
           \E value \in Range(Up(code, entry).entry) :
             value.of = n /\ value.by = "old" /\ ~value.spoiled

(* For a plan within its reach the derive's `up` leaves every entry as the *)
(* generated one does (macros/src/lib.rs expand_migration, codegen.rs).    *)
DerivedMatchesGenerated ==
  \A pair \in CommittedPairs :
    LET plan == PlanOf(pair)
        from == From(pair)
        to == To(pair)
    IN CanDerive(to, plan) /\ CanGenerate(from, to, plan) /\ ~IsStale(from, to, plan) =>
         \A entry \in EntriesOf(from, "old") \cup EntriesOf(to, "new") :
           DerivedUp(Derived(from, to, plan), entry).entry
             = Up(Generated(from, to, plan), entry).entry

(* A derived `down` takes an old entry back to what it was before `up`,    *)
(* but for the fields the new shape has dropped (expand_migration).        *)
DownUndoesUp ==
  \A pair \in CommittedPairs :
    LET plan == PlanOf(pair)
        from == From(pair)
        to == To(pair)
        code == Derived(from, to, plan)
    IN CanDerive(to, plan) /\ CanGenerate(from, to, plan) /\ ~IsStale(from, to, plan) =>
         \A entry \in EntriesOf(from, "old") :
           Read(Down(code, DerivedUp(code, entry).entry).entry, to) = Read(entry, to)

(* The plan's promise: "the migration sets those to" the initial value,    *)
(* entries that have no value, and moves the others on.  After a visit     *)
(* each field that became required has its old value or, if there was      *)
(* none, the initial one (diff.rs BecameRequired and AddedRequired).       *)
RequiredFieldsAreSet ==
  \A pair \in DOMAIN generated :
    LET code == generated[pair]
    IN \A entry \in EntriesOf(code.from, "old") : \A n \in code.assign :
         LET after == Up(code, entry).entry
         IN /\ n \in DOMAIN after
            /\ after[n] = IF n \in DOMAIN entry THEN entry[n] ELSE Initialised(code, n)

(* The generated file's own account of renames and type changes: "A        *)
(* consumed key decodes as `None` on a second visit, so the conversion     *)
(* does not run again."  Visiting an old entry twice leaves it as visiting *)
(* it once does (codegen.rs:306-309; it does not hold of a field that      *)
(* keeps its name and is retyped to a type stored like the old one).       *)
SecondVisitChangesNothing ==
  \A pair \in DOMAIN generated :
    LET code == generated[pair]
    IN \A entry \in EntriesOf(code.from, "old") :
         LET once == Up(code, entry).entry
         IN Up(code, once).entry = once
============================================================================
