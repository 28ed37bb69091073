------------------------- MODULE GeneratedMigration -------------------------
(***************************************************************************)
(* The migrations the tools write, and what they do to an entry: the `up`  *)
(* that `soroban-migrate generate` renders from a diff and a plan          *)
(* (soroban-migrate-schema/src/codegen.rs), and the `up` and `down` that   *)
(* `#[derive(Migration)]` expands to (soroban-migrate-macros/src/lib.rs).  *)
(*                                                                         *)
(* A migration is the set of assignments the emitted code makes.  An       *)
(* initialiser is taken to be a constant, as codegen.rs asks of it; a      *)
(* conversion is a function of values of the old type.                     *)
(* An entry that is not there is skipped; entries here are there.          *)
(***************************************************************************)
EXTENDS SchemaDiff

(* What the code of a migration names (CodegenOptions, Consumer): the two  *)
(* shapes, the optional fields it fills, the fields it assigns, and for    *)
(* each field that takes over an old value the field it comes from.        *)
Code(from, to, fill, assign, consume) ==
  [from |-> from, to |-> to, fill |-> fill, assign |-> assign, consume |-> consume]

(* `generate` needs to be told how to convert a rename that retypes; every *)
(* other decision it needs, the diff has denied the want of.               *)
Undecidable(from, to, plan) ==
  \E n \in RetypedTargets(from, to, plan) : ~Converts(plan, n)

CanGenerate(from, to, plan) ==
  /\ Verdict(Findings(from, to, plan)) # Denied
  /\ ~Undecidable(from, to, plan)

(* generate.                                                               *)
Generated(from, to, plan) ==
  LET renamed == RenameTargets(from, to, plan)
  IN Code(from, to,
          DOMAIN plan.init \cap Added(from, to, plan, TRUE),
          Added(from, to, plan, FALSE) \cup BecameRequired(from, to),
          [n \in renamed \cup Retyped(from, to) |->
             IF n \in renamed THEN RenamedFrom(plan, n) ELSE n])

(* The derive: the fields of `init`, in the struct that `entry` names.  It *)
(* refuses a jump, `rename` and `convert`, and a migration of nothing; and *)
(* what it expands to only compiles for `Option` fields of that struct.    *)
Derived(from, to, plan) == Code(from, to, DOMAIN plan.init, {}, Nothing)
CanDerive(to, plan) ==
  /\ plan.renamed = Nothing /\ plan.converted = Nothing
  /\ plan.init # Nothing \/ plan.dropped # {}
  /\ \A n \in DOMAIN plan.init : n \in FieldNames(to) /\ to.types[n].optional

-----------------------------------------------------------------------------
(* One visit of an entry.                                                  *)

Visit(outcome, entry) == [outcome |-> outcome, entry |-> entry]

(* Reading the old names through the shadow struct, each an `Option` of    *)
(* its old base type.                                                      *)
ShadowReadable(migration, entry) ==
  \A n \in DOMAIN migration.consume :
    LET old == migration.consume[n]
    IN old \in DOMAIN entry => Decodes(entry[old], migration.from.types[old].base)

(* The new fields a consumed value is stored in: unconditionally, unless   *)
(* the field is an `Option`.                                               *)
Consumed(migration, entry) ==
  { n \in DOMAIN migration.consume :
      /\ migration.consume[n] \in DOMAIN entry
      /\ migration.to.types[n].optional => n \notin DOMAIN entry }

Changed(migration, entry) ==
  (migration.fill \ DOMAIN entry) \cup migration.assign \cup Consumed(migration, entry)

Initialised(migration, n) == ValueOf(migration.to, n, "init")
Converted(migration, n, value) ==
  LET old == migration.from.types[migration.consume[n]].base
  IN [value EXCEPT !.base = migration.to.types[n].base,
                   !.spoiled = @ \/ value.base # old]

\* Mutant: the old field is consumed but its value is not stored.
Rewritten_ReadOnly(migration, entry) == Read(entry, migration.to)

(* The entry as the emitted code leaves it in memory.                      *)
Rewritten(migration, entry) ==
  LET read == Read(entry, migration.to)
  IN [n \in DOMAIN read \cup Changed(migration, entry) |->
        CASE n \in Consumed(migration, entry) ->
               Converted(migration, n, entry[migration.consume[n]])
          [] n \in Changed(migration, entry) \ Consumed(migration, entry) ->
               Initialised(migration, n)
          [] OTHER -> read[n]]

-----------------------------------------------------------------------------
(* Mutants: plausible slips in the definitions that follow.                *)

\* An optional field is filled whether or not it is empty.
Visited_Unguarded(migration, entry) ==
  IF ~Readable(entry, migration.to) THEN Visit("Skipped", entry)
  ELSE Visit("Migrated", [n \in DOMAIN entry \cup migration.fill |->
         IF n \in migration.fill THEN Initialised(migration, n) ELSE entry[n]])

\* The derive's `up` writes entries back although no field was filled.
DerivedUp_Rewrites(migration, entry) ==
  Visit("Migrated", Rewritten(migration, entry))

\* `down` does not set `changed` when it clears a field.
Down_NeverChanged(migration, entry) == Visit("AlreadyCurrent", entry)

-----------------------------------------------------------------------------

Visited(migration, entry) ==
  IF ~Readable(entry, migration.to) \/ ~ShadowReadable(migration, entry)
  THEN Visit("Skipped", entry)
  ELSE IF Changed(migration, entry) = {} THEN Visit("AlreadyCurrent", entry)
  ELSE Visit("Migrated", Rewritten(migration, entry))

(* The `up` of a generated migration: one with nothing to assign and       *)
(* nothing to consume does not even decode the entry.                      *)
Up(migration, entry) ==
  IF migration.fill = {} /\ migration.assign = {} /\ DOMAIN migration.consume = {}
  THEN Visit("AlreadyCurrent", entry)
  ELSE Visited(migration, entry)

(* The `up` of a derive.                                                   *)
DerivedUp(migration, entry) == Visited(migration, entry)

(* The `down` of a derive that declares `reversible`.                      *)
Down(migration, entry) ==
  IF ~Readable(entry, migration.to) THEN Visit("Skipped", entry)
  ELSE IF migration.fill \cap DOMAIN entry = {} THEN Visit("AlreadyCurrent", entry)
  ELSE LET read == Read(entry, migration.to)
       IN Visit("Migrated", Restrict(read, DOMAIN read \ migration.fill))
=============================================================================
