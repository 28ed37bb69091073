----------------------------- MODULE SchemaDiff -----------------------------
(***************************************************************************)
(* The field-level diff of two consecutive versions of a shape             *)
(* (soroban-migrate-schema/src/diff.rs) and the plan that declares what is *)
(* meant by its destructive changes (plan.rs).                             *)
(*                                                                         *)
(* Each kind of finding is the set of fields it is made for.  diff.rs      *)
(* walks the new fields and then the old ones and lets the first match     *)
(* win; the sets below are disjoint by the same conditions.                *)
(***************************************************************************)
EXTENDS Schema

(* Severity, in its derived order.                                         *)
Info == 1
Warning == 2
Denied == 3
Severities == {Info, Warning, Denied}

WorstOf(severities) ==
  IF severities = {} THEN Info
  ELSE CHOOSE s \in severities : \A t \in severities : t <= s

Finding(field, kind, severity) == [field |-> field, kind |-> kind, severity |-> severity]

(* Findings about a pair rather than a field have the empty field name.    *)
NoField == ""

-----------------------------------------------------------------------------
(* Plans (MigrationPlan).  An expression is a placeholder that `plan`      *)
(* wrote, blank, or one a person filled in.                                *)

Expressions == {"todo", "blank", "filled"}

Nothing == [n \in {} |-> n]
EmptyPlan == [init |-> Nothing, dropped |-> {}, converted |-> Nothing, renamed |-> Nothing]

IsPlan(plan) ==
  /\ DOMAIN plan = DOMAIN EmptyPlan
  /\ IsPartial(plan.init, Names, Expressions)
  /\ plan.dropped \subseteq Names
  /\ IsPartial(plan.converted, Names, Expressions)
  /\ IsPartial(plan.renamed, Names, Names)

(* MigrationPlan::renamed_from: of several old names, the first one in the *)
(* map's order, whichever that is.                                         *)
Renames(plan, new) == { old \in DOMAIN plan.renamed : plan.renamed[old] = new }
RenamedFrom(plan, new) == CHOOSE old \in Renames(plan, new) : TRUE

(* A conversion counts once it is not blank; a placeholder is not blank.   *)
Converts(plan, n) == n \in DOMAIN plan.converted /\ plan.converted[n] # "blank"

(* The placeholders still in it (unfilled_fields).                         *)
IsUnfilled(plan) ==
  \/ \E n \in DOMAIN plan.init : plan.init[n] = "todo"
  \/ \E n \in DOMAIN plan.converted : plan.converted[n] = "todo"

-----------------------------------------------------------------------------
(* Mutants: plausible slips in the definitions that follow.                *)

\* A field that only became required is taken for one that was so before.
BecameRequired_Missed(from, to) == {}

-----------------------------------------------------------------------------
(* What changed.                                                           *)

NewNames(from, to) == FieldNames(to) \ FieldNames(from)
KeptNames(from, to) == FieldNames(from) \cap FieldNames(to)

(* New names whose value the plan takes from an old field.                 *)
RenameTargets(from, to, plan) ==
  { new \in NewNames(from, to) :
      Renames(plan, new) # {} /\ RenamedFrom(plan, new) \in FieldNames(from) }
RenameSources(from, to, plan) ==
  { RenamedFrom(plan, new) : new \in RenameTargets(from, to, plan) }

Added(from, to, plan, optional) ==
  { n \in NewNames(from, to) \ RenameTargets(from, to, plan) :
      to.types[n].optional = optional }

(* The texts of the base types are compared as they are, unlike those of   *)
(* the payloads of keys (normalize_type).                                  *)
Retyped(from, to) ==
  { n \in KeptNames(from, to) : from.types[n].base # to.types[n].base }

(* Changed in being optional, the base type aside.                         *)
BecameRequired(from, to) ==
  { n \in KeptNames(from, to) \ Retyped(from, to) :
      from.types[n].optional /\ ~to.types[n].optional }
BecameOptional(from, to) ==
  { n \in KeptNames(from, to) \ Retyped(from, to) :
      ~from.types[n].optional /\ to.types[n].optional }
Respelled(from, to) ==
  { n \in KeptNames(from, to) \ Retyped(from, to) :
      /\ from.types[n].optional = to.types[n].optional
      /\ from.types[n].spelling # to.types[n].spelling }

(* A rename that also changes the base type.                               *)
RetypedTargets(from, to, plan) ==
  { new \in RenameTargets(from, to, plan) :
      from.types[RenamedFrom(plan, new)].base # to.types[new].base }

(* Old names reported as removed: not those a rename accounts for, even    *)
(* when another old name was taken for that rename.                        *)
RemovedNames(from, to, plan) ==
  { old \in FieldNames(from) \ FieldNames(to) :
      /\ old \notin RenameSources(from, to, plan)
      /\ ~(old \in DOMAIN plan.renamed /\ plan.renamed[old] \in FieldNames(to)) }

-----------------------------------------------------------------------------
(* How bad it is (diff_with_plan).                                         *)

Rated(condition, then, otherwise) == IF condition THEN then ELSE otherwise

RenameSeverity(from, to, plan, new) ==
  LET old == from.types[RenamedFrom(plan, new)]
  IN Rated(old.base # to.types[new].base \/ old.optional # to.types[new].optional,
           Warning, Info)

FieldFindings(from, to, plan) ==
  UNION {
    { Finding(n, "Renamed", RenameSeverity(from, to, plan, n)) :
        n \in RenameTargets(from, to, plan) },
    { Finding(n, "AddedOptional", Rated(n \in DOMAIN plan.init, Info, Warning)) :
        n \in Added(from, to, plan, TRUE) },
    { Finding(n, "AddedRequired", Rated(n \in DOMAIN plan.init, Warning, Denied)) :
        n \in Added(from, to, plan, FALSE) },
    { Finding(n, "Retyped", Rated(Converts(plan, n), Warning, Denied)) :
        n \in Retyped(from, to) },
    { Finding(n, "BecameRequired", Rated(n \in DOMAIN plan.init, Warning, Denied)) :
        n \in BecameRequired(from, to) },
    { Finding(n, "BecameOptional", Info) : n \in BecameOptional(from, to) },
    { Finding(n, "SpellingChanged", Info) : n \in Respelled(from, to) },
    { Finding(n, "Removed", Rated(n \in plan.dropped, Info, Denied)) :
        n \in RemovedNames(from, to, plan) } }

(* Only when nothing was added or removed.                                 *)
ReorderFindings(from, to) ==
  IF from.order # to.order /\ FieldNames(from) = FieldNames(to)
  THEN {Finding(NoField, "Reordered", Info)} ELSE {}

Findings(from, to, plan) == FieldFindings(from, to, plan) \cup ReorderFindings(from, to)

(* diff: the plan that declares nothing.                                   *)
BareFindings(from, to) == Findings(from, to, EmptyPlan)

Verdict(findings) == WorstOf({ f.severity : f \in findings })
DeniedFields(findings) == { f.field : f \in { g \in findings : g.severity = Denied } }

(* validate_plan: a directive that no change of the pair calls for.        *)
IsStale(from, to, plan) ==
  LET changed == Retyped(from, to) \cup BecameRequired(from, to)
                   \cup RetypedTargets(from, to, plan)
      removed == (FieldNames(from) \ FieldNames(to)) \cup RenameSources(from, to, plan)
  IN \/ ~(DOMAIN plan.init \subseteq NewNames(from, to) \cup changed)
     \/ ~(plan.dropped \subseteq removed)
     \/ ~(DOMAIN plan.converted \subseteq changed)
     \/ \E old \in DOMAIN plan.renamed :
          old \notin FieldNames(from) \/ plan.renamed[old] \notin FieldNames(to)

-----------------------------------------------------------------------------
(* What a diff without a plan must find: the fields at which some entry of *)
(* the old build traps under the new shape, or loses a value by being read *)
(* and written back.                                                       *)
Breaks(from, to) ==
  { n \in Names : \E entry \in EntriesOf(from, "old") :
      n \in TrapsAt(entry, to) \/ n \in DOMAIN entry \ DOMAIN Read(entry, to) }

(* Fields retyped although what is stored for them reads as before: the    *)
(* base type is written in another way, or is one that is stored alike.    *)
RetypedAlike(from, to) ==
  { n \in Retyped(from, to) :
      Encoding[from.types[n].base] = Encoding[to.types[n].base] }

(* The names a plan says something about.                                  *)
Mentioned(plan) ==
  UNION { DOMAIN plan.init, plan.dropped, DOMAIN plan.converted,
          DOMAIN plan.renamed, Range(plan.renamed) }

-----------------------------------------------------------------------------
(* Key spaces (KeySpace): the enum that storage keys are encoded from, as  *)
(* the sequence of its variants.  A key is stored under the name of its    *)
(* variant, followed by the payload.                                       *)

VariantNames(space) == { v.name : v \in Range(space) }
VariantOf(space, name) == CHOOSE v \in Range(space) : v.name = name

\* Mutant: the payload is left out of the comparison.
KeySpaceFindings_NoPayload(old, new) ==
  { Finding(n, "variant removed", Denied) : n \in VariantNames(old) \ VariantNames(new) }

(* key_space_findings.                                                     *)
KeySpaceFindings(old, new) ==
  LET both == VariantNames(old) \cap VariantNames(new)
      Changed(n) == VariantOf(old, n).payload # VariantOf(new, n).payload
      Moved(n) == VariantOf(old, n).migration # VariantOf(new, n).migration
      Of(names, kind, severity) == { Finding(n, kind, severity) : n \in names }
      found == UNION {
        Of(VariantNames(new) \ VariantNames(old), "variant added", Info),
        Of({ n \in both : Changed(n) }, "payload changed", Denied),
        Of({ n \in both : Moved(n) }, "#[migration] moved", Denied),
        Of(VariantNames(old) \ VariantNames(new), "variant removed", Denied) }
  IN IF found = {} /\ old # new
     THEN {Finding(NoField, "reordered", Info)}
     ELSE found
=============================================================================
