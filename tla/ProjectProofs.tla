---------------------------- MODULE ProjectProofs ----------------------------
(***************************************************************************)
(* A project through any sequence of edits and commands, for all sources,  *)
(* key enums, names and types.                                             *)
(***************************************************************************)
EXTENDS Project, SchemaDiffProofs, FiniteSetTheorems, WellFoundedInduction

-----------------------------------------------------------------------------
(* Snapshots.                                                              *)

(* Snapshots have shapes and numbers, and are known by name and version    *)
(* (SchemaSet).                                                            *)
AreSnapshots(schemas) ==
  /\ \A s \in schemas :
       s.name \in 0 .. MaxVersion /\ s.version \in 1 .. MaxVersion /\ IsShape(s.shape)
  /\ \A s, t \in schemas : s.name = t.name /\ s.version = t.version => s = t

(* get finds the one schema there is.                                      *)
LEMMA LookupFinds ==
  ASSUME NEW schemas, AreSnapshots(schemas), NEW s \in schemas
  PROVE  Lookup(schemas, s.name, s.version) = s
  BY DEF AreSnapshots, Lookup

LEMMA LookupDeclared ==
  ASSUME NEW schemas, AreSnapshots(schemas), NEW n, NEW v, Declares(schemas, n, v)
  PROVE  /\ Lookup(schemas, n, v) \in schemas
         /\ Lookup(schemas, n, v).name = n
         /\ Lookup(schemas, n, v).version = v
         /\ IsShape(Lookup(schemas, n, v).shape)
<1>1. PICK s \in schemas : s.name = n /\ s.version = v
  BY DEF Declares, VersionsOf
<1>2. Lookup(schemas, n, v) = s
  BY <1>1, LookupFinds
<1> QED BY <1>1, <1>2 DEF AreSnapshots

(* An export adds to the snapshots that are there, and what it adds is     *)
(* known by name and version too, wherever it stops (schema export).       *)
LEMMA ExportAdds ==
  ASSUME source \in InitialSources \cup Sources, AreSnapshots(snapshots)
  PROVE  snapshots \subseteq ExportedSchemas /\ AreSnapshots(ExportedSchemas)
<1> USE ProjectAssumption
<1>1. CASE SourceFails
  BY <1>1 DEF ExportedSchemas
<1>2. CASE ~SourceFails
  <2> DEFINE added == { d \in Declared : \A r \in Refused : ~Precedes(r, d) }
  <2>1. ExportedSchemas = snapshots \cup added
    BY <1>2 DEF ExportedSchemas
  <2>2. ASSUME NEW d \in Declared
        PROVE  /\ d.name \in 0 .. MaxVersion /\ d.version \in 1 .. MaxVersion
               /\ IsShape(d.shape)
               /\ d = [name |-> d.name, version |-> d.version, shape |-> d.shape]
    <3>1. PICK c \in source : d = [name |-> IF c.named THEN 0 ELSE c.suffix,
                                   version |-> c.version, shape |-> c.shape]
      BY DEF Declared
    <3>2. c.suffix \in 1 .. MaxVersion /\ c.version \in 0 .. MaxVersion /\ IsShape(c.shape)
      OBVIOUS
    <3>3. c.version # 0
      BY <1>2 DEF SourceFails, Unparsable
    <3>4. d.name \in 0 .. MaxVersion
      BY <3>1, <3>2
    <3>5. d.version \in 1 .. MaxVersion
      BY <3>1, <3>2, <3>3
    <3>6. IsShape(d.shape)
      BY <3>1, <3>2
    <3>7. d = [name |-> d.name, version |-> d.version, shape |-> d.shape]
      BY <3>1
    <3> QED BY <3>4, <3>5, <3>6, <3>7
  <2>3. \A s, t \in Declared : s.name = t.name /\ s.version = t.version => s.shape = t.shape
    BY <1>2 DEF SourceFails, Conflict
  <2>4. \A s, t \in Declared : s.name = t.name /\ s.version = t.version => s = t
    BY <2>2, <2>3
  <2>5. ASSUME NEW d \in added, NEW s \in snapshots,
               s.name = d.name, s.version = d.version
        PROVE  d \in snapshots
    <3>1. d.version \in VersionsOf(snapshots, d.name)
      BY <2>5 DEF VersionsOf
    <3>2. Precedes(d, d)
      BY <2>2 DEF Precedes
    <3> QED BY <3>1, <3>2 DEF Refused, Declares
  <2>6. \A s \in snapshots \cup added :
          s.name \in 0 .. MaxVersion /\ s.version \in 1 .. MaxVersion /\ IsShape(s.shape)
    BY <2>2 DEF AreSnapshots
  <2>7. ASSUME NEW s \in snapshots \cup added, NEW t \in snapshots \cup added,
               s.name = t.name, s.version = t.version
        PROVE  s = t
    <3>1. CASE s \in snapshots \/ t \in snapshots
      <4>1. s \in snapshots /\ t \in snapshots
        BY <2>5, <2>7, <3>1
      <4> QED BY <2>7, <4>1 DEF AreSnapshots
    <3>2. CASE s \notin snapshots /\ t \notin snapshots
      BY <2>4, <2>7, <3>2
    <3> QED BY <3>1, <3>2
  <2> QED BY <2>1, <2>6, <2>7 DEF AreSnapshots
<1> QED BY <1>1, <1>2

(* What is committed stays committed, with the shape it has.               *)
LEMMA CommittedStays ==
  ASSUME NEW schemas, AreSnapshots(snapshots), AreSnapshots(schemas),
         snapshots \subseteq schemas, NEW n, NEW v, Declares(snapshots, n, v)
  PROVE  Declares(schemas, n, v) /\ Lookup(schemas, n, v) = Lookup(snapshots, n, v)
<1>1. /\ Lookup(snapshots, n, v) \in schemas
      /\ Lookup(snapshots, n, v).name = n
      /\ Lookup(snapshots, n, v).version = v
  BY LookupDeclared
<1>2. Declares(schemas, n, v)
  BY <1>1 DEF Declares, VersionsOf
<1>3. Lookup(schemas, n, v) = Lookup(snapshots, n, v)
  BY <1>1, LookupFinds
<1> QED BY <1>2, <1>3

-----------------------------------------------------------------------------
(* The invariant.                                                          *)

(* The fields a migration assigns and consumes are those the new shape     *)
(* has; a field that takes over a value of its own name has changed its    *)
(* base type.                                                              *)
IsCode(migration) ==
  /\ IsShape(migration.from) /\ IsShape(migration.to)
  /\ migration.fill \subseteq FieldNames(migration.to)
  /\ migration.assign \subseteq FieldNames(migration.to)
  /\ IsPartial(migration.consume, Names, Names)
  /\ \A n \in DOMAIN migration.consume :
       /\ n \in FieldNames(migration.to)
       /\ migration.consume[n] \in FieldNames(migration.from)
       /\ migration.consume[n] = n =>
            migration.from.types[n].base # migration.to.types[n].base

PlansOK == DOMAIN plans \subseteq Pairs /\ \A p \in DOMAIN plans : IsPlan(plans[p])
KeysOK ==
  /\ keys \in InitialKeyEnums \cup KeyEnums
  /\ keyFile \in KeySpaces
SourceOK ==
  /\ configured \in BOOLEAN /\ edits \in 0 .. MaxEdits
  /\ source \in InitialSources \cup Sources
GeneratedOK ==
  /\ DOMAIN generated \subseteq Pairs
  /\ \A pair \in DOMAIN generated :
       /\ IsCommitted(pair)
       /\ generated[pair].from = From(pair) /\ generated[pair].to = To(pair)
       /\ IsCode(generated[pair])

ProjectInv == SourceOK /\ KeysOK /\ AreSnapshots(snapshots) /\ PlansOK /\ GeneratedOK

(* What generate writes is code between the two shapes.                    *)
LEMMA GeneratedIsCode ==
  ASSUME NEW from, NEW to, NEW plan, IsShape(from), IsShape(to)
  PROVE  /\ Generated(from, to, plan).from = from /\ Generated(from, to, plan).to = to
         /\ IsCode(Generated(from, to, plan))
<1> DEFINE code == Generated(from, to, plan)
           renamed == RenameTargets(from, to, plan)
<1>1. /\ code.from = from /\ code.to = to
      /\ code.fill = DOMAIN plan.init \cap Added(from, to, plan, TRUE)
      /\ code.assign = Added(from, to, plan, FALSE) \cup BecameRequired(from, to)
      /\ code.consume = [n \in renamed \cup Retyped(from, to) |->
                           IF n \in renamed THEN RenamedFrom(plan, n) ELSE n]
  BY DEF Generated, Code
<1>2. code.fill \subseteq FieldNames(to) /\ code.assign \subseteq FieldNames(to)
  BY <1>1 DEF Added, NewNames, BecameRequired, KeptNames
<1>3. ASSUME NEW n \in DOMAIN code.consume
      PROVE  /\ n \in FieldNames(to) /\ code.consume[n] \in FieldNames(from)
             /\ code.consume[n] = n => from.types[n].base # to.types[n].base
  <2>1. CASE n \in renamed
    BY <1>1, <2>1 DEF RenameTargets, NewNames
  <2>2. CASE n \in Retyped(from, to) /\ n \notin renamed
    BY <1>1, <2>2 DEF Retyped, KeptNames
  <2> QED BY <1>1, <2>1, <2>2
<1>4. FieldNames(from) \subseteq Names /\ FieldNames(to) \subseteq Names
  BY DEF IsShape, IsPartial, FieldNames
<1>5. IsPartial(code.consume, Names, Names)
  BY <1>1, <1>3, <1>4 DEF IsPartial
<1>6. IsCode(code)
  <2> HIDE DEF code
  <2> QED BY <1>1, <1>2, <1>3, <1>5 DEF IsCode
<1> QED BY <1>1, <1>6

(* What plan drafts is a plan.                                             *)
LEMMA DraftIsPlan ==
  ASSUME NEW from, NEW to, IsShape(from), IsShape(to)
  PROVE  IsPlan(Draft(from, to))
<1> DEFINE Of(kinds) == { f.field : f \in { g \in BareFindings(from, to) :
                            g.kind \in kinds /\ g.severity = Denied } }
<1>1. \A kinds : Of(kinds) \subseteq DeniedFields(BareFindings(from, to))
  BY DEF DeniedFields
<1>2. \A kinds : Of(kinds) \subseteq Names
  <2>1. DeniedFields(BareFindings(from, to)) = Breaks(from, to) \cup RetypedAlike(from, to)
    BY DiffIsExact
  <2>2. Breaks(from, to) \subseteq Names
    BY DEF Breaks
  <2>3. RetypedAlike(from, to) \subseteq Names
    BY DEF RetypedAlike, Retyped, KeptNames, IsShape, IsPartial, FieldNames
  <2> QED BY <1>1, <2>1, <2>2, <2>3
<1>3. /\ Draft(from, to).init = [n \in Of({"AddedRequired", "BecameRequired"}) |-> "todo"]
      /\ Draft(from, to).dropped = Of({"Removed"})
      /\ Draft(from, to).converted = [n \in Of({"Retyped"}) |-> "todo"]
      /\ Draft(from, to).renamed = Nothing
  BY DEF Draft, EmptyPlan
<1>4. DOMAIN Draft(from, to) = DOMAIN EmptyPlan
  BY DEF Draft, EmptyPlan
<1> QED BY <1>2, <1>3, <1>4 DEF IsPlan, IsPartial, Expressions, Nothing

(* Editing a plan, or filling it in, leaves a plan.                        *)
LEMMA EditedIsPlan ==
  ASSUME NEW plan, IsPlan(plan)
  PROVE  IsPlan(Filled(plan)) /\ \A p \in Toggled(plan) : IsPlan(p)
<1> DEFINE Flip(file, n, content) == IF n \in DOMAIN file THEN Drop(file, n)
                                     ELSE Write(file, n, content)
<1>1. \A file, S, T : \A n \in S, content \in T :
        IsPartial(file, S, T) => IsPartial(Flip(file, n, content), S, T)
  BY DEF IsPartial, Drop, Write
<1>2. IsPlan(Filled(plan))
  <2> DEFINE Fill(file) == [n \in DOMAIN file |-> IF file[n] = "todo" THEN "filled" ELSE file[n]]
  <2>1. \A file : IsPartial(file, Names, Expressions) => IsPartial(Fill(file), Names, Expressions)
    BY DEF IsPartial, Expressions
  <2>2. /\ Filled(plan).init = Fill(plan.init) /\ Filled(plan).dropped = plan.dropped
        /\ Filled(plan).converted = Fill(plan.converted) /\ Filled(plan).renamed = plan.renamed
    BY DEF Filled, IsPlan, EmptyPlan
  <2>3. DOMAIN Filled(plan) = DOMAIN plan
    BY DEF Filled
  <2> QED BY <2>1, <2>2, <2>3 DEF IsPlan
<1>3. ASSUME NEW p \in Toggled(plan)
      PROVE  IsPlan(p)
  <2>1. PICK n \in Names :
          \/ p = [plan EXCEPT !.init = Flip(@, n, "filled")]
          \/ p = [plan EXCEPT !.dropped = IF n \in @ THEN @ \ {n} ELSE @ \cup {n}]
          \/ p = [plan EXCEPT !.converted = Flip(@, n, "filled")]
          \/ \E new \in Names \ {n} : p = [plan EXCEPT !.renamed = Flip(@, n, new)]
    BY DEF Toggled
  <2> HIDE DEF Flip
  <2>2. "filled" \in Expressions
    BY DEF Expressions
  <2>3. DOMAIN plan = {"init", "dropped", "converted", "renamed"}
    BY DEF IsPlan, EmptyPlan
  <2>4. CASE p = [plan EXCEPT !.init = Flip(@, n, "filled")]
    BY <1>1, <2>2, <2>3, <2>4 DEF IsPlan
  <2>5. CASE p = [plan EXCEPT !.dropped = IF n \in @ THEN @ \ {n} ELSE @ \cup {n}]
    BY <2>3, <2>5 DEF IsPlan
  <2>6. CASE p = [plan EXCEPT !.converted = Flip(@, n, "filled")]
    BY <1>1, <2>2, <2>3, <2>6 DEF IsPlan
  <2>7. CASE \E new \in Names \ {n} : p = [plan EXCEPT !.renamed = Flip(@, n, new)]
    BY <1>1, <2>3, <2>7 DEF IsPlan
  <2> QED BY <2>1, <2>4, <2>5, <2>6, <2>7
<1> QED BY <1>2, <1>3

-----------------------------------------------------------------------------
(* Every step keeps the invariant.                                         *)

(* A command that changes no file but snapshots, and adds to those.        *)
LEMMA GeneratedStays ==
  ASSUME ProjectInv, UNCHANGED generated,
         snapshots \subseteq snapshots', AreSnapshots(snapshots')
  PROVE  GeneratedOK'
<1>1. AreSnapshots(snapshots) /\ GeneratedOK
  BY DEF ProjectInv
<1>2. ASSUME NEW pair \in DOMAIN generated
      PROVE  IsCommitted(pair)' /\ From(pair)' = From(pair) /\ To(pair)' = To(pair)
  <2>1. Declares(snapshots, pair.name, pair.from) /\ Declares(snapshots, pair.name, pair.from + 1)
    BY <1>1, <1>2 DEF GeneratedOK, IsCommitted
  <2>2. \A v : Declares(snapshots, pair.name, v) =>
          /\ Declares(snapshots', pair.name, v)
          /\ Lookup(snapshots', pair.name, v) = Lookup(snapshots, pair.name, v)
    BY <1>1, CommittedStays
  <2> QED BY <2>1, <2>2 DEF IsCommitted, From, To
<1> QED BY <1>1, <1>2 DEF GeneratedOK

(* A set of numbers has a least one.                                       *)
LEMMA LeastNat ==
  ASSUME NEW S, S \subseteq Nat, S # {}
  PROVE  \E x \in S : \A y \in S : x <= y
<1>1. PICK x \in S : \A y \in S : ~ (<< y, x >> \in OpToRel(<, Nat))
  BY NatLessThanWellFounded, WFMin
<1>2. \A y \in S : ~ (y < x)
  BY <1>1 DEF OpToRel
<1> QED BY <1>2

(* What is read from the source is the enum of one of its files.           *)
LEMMA DeclaredIsKeySpace ==
  ASSUME KeysOK
  PROVE  DeclaredKeySpaces \subseteq KeySpaces
<1> SUFFICES ASSUME NEW f \in Declaring PROVE KeySpaceOf(keys[f]) \in KeySpaces
  BY DEF DeclaredKeySpaces
<1>1. keys \in InitialKeyEnums \cup KeyEnums /\ keys[f] \in Range(keys)
  BY DEF KeysOK, Declaring, Range
<1>2. KeySpacesIn(keys[f]) # {} /\ KeySpacesIn(keys[f]) \subseteq DOMAIN keys[f]
  BY DEF Declaring, KeySpacesIn
<1>3. DOMAIN keys[f] \subseteq Nat
  BY <1>1, ProjectAssumption
<1>4. \E first \in KeySpacesIn(keys[f]) : \A j \in KeySpacesIn(keys[f]) : first <= j
  BY <1>2, <1>3, LeastNat
<1>5. PICK i \in KeySpacesIn(keys[f]) : KeySpaceOf(keys[f]) = keys[f][i].variants
  BY <1>4 DEF KeySpaceOf
<1>6. keys[f][i] \in Range(keys[f])
  BY <1>2, <1>5 DEF Range
<1> QED BY <1>1, <1>5, <1>6 DEF KeySpaces

LEMMA InitInv == Init => ProjectInv
<1> SUFFICES ASSUME Init PROVE ProjectInv
  OBVIOUS
<1>1. SourceOK
  <2>1. edits \in 0 .. MaxEdits
    BY ProjectAssumption DEF Init
  <2> QED BY <2>1 DEF Init, SourceOK
<1>2. KeysOK
  <2>1. keys \in InitialKeyEnums /\ keyFile = NoKeySpace
    BY DEF Init
  <2> QED BY <2>1 DEF KeysOK, KeySpaces
<1>3. AreSnapshots(snapshots)
  BY DEF Init, AreSnapshots
<1>4. PlansOK /\ GeneratedOK
  BY DEF Init, PlansOK, GeneratedOK, Nothing
<1> QED BY <1>1, <1>2, <1>3, <1>4 DEF ProjectInv

LEMMA StepInv == ProjectInv /\ [Next]_vars => ProjectInv'
<1> SUFFICES ASSUME ProjectInv, [Next]_vars PROVE ProjectInv'
  OBVIOUS
<1>1. SourceOK /\ KeysOK /\ AreSnapshots(snapshots) /\ PlansOK /\ GeneratedOK
  BY DEF ProjectInv
<1>2. ASSUME UNCHANGED << snapshots, generated >>
      PROVE  AreSnapshots(snapshots)' /\ GeneratedOK'
  BY <1>1, <1>2 DEF AreSnapshots, GeneratedOK, IsCommitted, From, To
<1>3. CASE EditSource
  <2>1. SourceOK'
    BY <1>1, <1>3, ProjectAssumption DEF EditSource, Edit, SourceOK
  <2>2. KeysOK' /\ PlansOK'
    BY <1>1, <1>3 DEF EditSource, KeysOK, PlansOK
  <2> QED BY <1>2, <1>3, <2>1, <2>2 DEF EditSource, ProjectInv
<1>4. CASE EditKeys
  <2>1. SourceOK'
    BY <1>1, <1>4, ProjectAssumption DEF EditKeys, Edit, SourceOK
  <2>2. KeysOK' /\ PlansOK'
    BY <1>1, <1>4 DEF EditKeys, KeysOK, PlansOK
  <2> QED BY <1>2, <1>4, <2>1, <2>2 DEF EditKeys, ProjectInv
<1>5. /\ snapshots \subseteq ExportedSchemas /\ AreSnapshots(ExportedSchemas)
      /\ ExportedKeySpace \in KeySpaces
  <2>1. CASE ExportedKeySpace = keyFile
    BY <1>1, <2>1, ExportAdds DEF SourceOK, KeysOK
  <2>2. CASE /\ Cardinality(Declaring) = 1
             /\ ExportedKeySpace = CHOOSE space \in DeclaredKeySpaces : TRUE
    <3>1. DeclaredKeySpaces # {}
      BY <2>2, FS_EmptySet DEF DeclaredKeySpaces
    <3>2. ExportedKeySpace \in DeclaredKeySpaces
      BY <2>2, <3>1
    <3>3. ExportedKeySpace \in KeySpaces
      BY <1>1, <3>2, DeclaredIsKeySpace
    <3> QED BY <1>1, <3>3, ExportAdds DEF SourceOK, KeysOK
  <2> QED BY <2>1, <2>2 DEF ExportedKeySpace
<1>6. ASSUME NEW force \in BOOLEAN, Initialise(force)
      PROVE  ProjectInv'
  <2>1. SourceOK' /\ PlansOK'
    BY <1>1, <1>6 DEF Initialise, SourceOK, PlansOK
  <2>2. KeysOK'
    BY <1>1, <1>5, <1>6 DEF Initialise, KeysOK
  <2>3. snapshots \subseteq snapshots' /\ AreSnapshots(snapshots')
    BY <1>1, <1>5, <1>6 DEF Initialise
  <2>4. GeneratedOK'
    BY <1>6, <2>3, GeneratedStays DEF Initialise
  <2> QED BY <2>1, <2>2, <2>3, <2>4 DEF ProjectInv
<1>7. CASE Export
  <2>1. SourceOK' /\ PlansOK'
    BY <1>1, <1>7 DEF Export, SourceOK, PlansOK
  <2>2. KeysOK'
    BY <1>1, <1>5, <1>7 DEF Export, KeysOK
  <2>3. snapshots \subseteq snapshots' /\ AreSnapshots(snapshots')
    BY <1>5, <1>7 DEF Export
  <2>4. GeneratedOK'
    BY <1>7, <2>3, GeneratedStays DEF Export
  <2> QED BY <2>1, <2>2, <2>3, <2>4 DEF ProjectInv
<1>8. ASSUME NEW pair, NEW plan, pair \in Pairs, IsPlan(plan),
             plans' = Write(plans, pair, plan)
      PROVE  PlansOK'
  BY <1>1, <1>8 DEF PlansOK, Write
<1>9. ASSUME NEW pair \in CommittedPairs, EditPlan(pair)
      PROVE  ProjectInv'
  <2>1. IsPlan(PlanOf(pair))
    <3>1. IsPlan(EmptyPlan)
      BY DEF IsPlan, EmptyPlan, Nothing, IsPartial
    <3> QED BY <1>1, <3>1 DEF PlanOf, PlansOK
  <2>2. PICK plan \in Toggled(PlanOf(pair)) : plans' = Write(plans, pair, plan)
    BY <1>9 DEF EditPlan
  <2>3. PlansOK'
    BY <1>8, <2>1, <2>2, EditedIsPlan DEF CommittedPairs
  <2>4. SourceOK' /\ KeysOK'
    BY <1>1, <1>9, ProjectAssumption DEF EditPlan, Edit, SourceOK, KeysOK
  <2> QED BY <1>2, <1>9, <2>3, <2>4 DEF EditPlan, ProjectInv
<1>10. ASSUME NEW pair \in CommittedPairs, FillIn(pair)
       PROVE  ProjectInv'
  <2>1. IsPlan(Filled(plans[pair])) /\ plans' = Write(plans, pair, Filled(plans[pair]))
    BY <1>1, <1>10, EditedIsPlan DEF FillIn, PlansOK
  <2>2. PlansOK'
    BY <1>8, <2>1 DEF CommittedPairs
  <2>3. SourceOK' /\ KeysOK'
    BY <1>1, <1>10 DEF FillIn, SourceOK, KeysOK
  <2> QED BY <1>2, <1>10, <2>2, <2>3 DEF FillIn, ProjectInv
<1>11. ASSUME NEW pair \in CommittedPairs
       PROVE  IsShape(From(pair)) /\ IsShape(To(pair))
  BY <1>1, LookupDeclared DEF CommittedPairs, IsCommitted, From, To
<1>12. ASSUME NEW pair \in CommittedPairs, NEW force \in BOOLEAN, DraftPlan(pair, force)
       PROVE  ProjectInv'
  <2>1. IsPlan(Draft(From(pair), To(pair)))
    BY <1>11, DraftIsPlan
  <2>2. PlansOK'
    BY <1>8, <1>12, <2>1 DEF DraftPlan, CommittedPairs
  <2>3. SourceOK' /\ KeysOK'
    BY <1>1, <1>12 DEF DraftPlan, SourceOK, KeysOK
  <2> QED BY <1>2, <1>12, <2>2, <2>3 DEF DraftPlan, ProjectInv
<1>13. ASSUME NEW pair \in CommittedPairs, NEW force \in BOOLEAN, Generate(pair, force)
       PROVE  ProjectInv'
  <2> DEFINE code == Generated(From(pair), To(pair), PlanOf(pair))
  <2>1. code.from = From(pair) /\ code.to = To(pair) /\ IsCode(code)
    BY <1>11, GeneratedIsCode
  <2>2. generated' = Write(generated, pair, code) /\ snapshots' = snapshots
    BY <1>13 DEF Generate
  <2>3. \A p : (IsCommitted(p)' <=> IsCommitted(p)) /\ From(p)' = From(p) /\ To(p)' = To(p)
    BY <2>2 DEF IsCommitted, From, To
  <2> HIDE DEF code
  <2>4. DOMAIN generated' = DOMAIN generated \cup {pair}
        /\ \A p \in DOMAIN generated' :
             generated'[p] = IF p = pair THEN code ELSE generated[p]
    BY <2>2 DEF Write
  <2>5. GeneratedOK'
    BY <1>1, <2>1, <2>3, <2>4 DEF GeneratedOK, CommittedPairs
  <2>6. SourceOK' /\ KeysOK' /\ PlansOK' /\ AreSnapshots(snapshots)'
    BY <1>1, <1>13 DEF Generate, SourceOK, KeysOK, PlansOK, AreSnapshots
  <2> QED BY <2>5, <2>6 DEF ProjectInv
<1>14. CASE UNCHANGED vars
  <2>1. SourceOK' /\ KeysOK' /\ PlansOK'
    BY <1>1, <1>14 DEF vars, SourceOK, KeysOK, PlansOK
  <2> QED BY <1>2, <1>14, <2>1 DEF vars, ProjectInv
<1> QED BY <1>3, <1>4, <1>6, <1>7, <1>9, <1>10, <1>12, <1>13, <1>14 DEF Next

THEOREM ProjectInvariant == Spec => []ProjectInv
<1> QED BY InitInv, StepInv, PTL DEF Spec

(* Both sides of a committed pair are shapes (load_pair).                  *)
LEMMA CommittedShapes ==
  ASSUME ProjectInv, NEW pair \in CommittedPairs
  PROVE  IsShape(From(pair)) /\ IsShape(To(pair))
  BY LookupDeclared DEF ProjectInv, CommittedPairs, IsCommitted, From, To

(* The project keeps its types: no command writes a snapshot, a plan or    *)
(* code that is not one.                                                   *)
THEOREM ProjectTypeCorrect == Spec => []TypeOK
<1>1. ProjectInv => TypeOK
  <2> SUFFICES ASSUME ProjectInv PROVE TypeOK
    OBVIOUS
  <2>1. SourceOK /\ KeysOK /\ AreSnapshots(snapshots) /\ PlansOK /\ GeneratedOK
    BY DEF ProjectInv
  <2>2. \A p \in DOMAIN generated :
          /\ generated[p].fill \cup generated[p].assign \subseteq Names
          /\ IsPartial(generated[p].consume, Names, Names)
    BY <2>1 DEF GeneratedOK, IsCode, IsShape, IsPartial, FieldNames
  <2> QED BY <2>1, <2>2 DEF SourceOK, KeysOK, AreSnapshots, PlansOK, GeneratedOK, TypeOK
<1> QED BY <1>1, ProjectInvariant, PTL

(* A generated migration stays between the shapes that are committed,      *)
(* through every later edit, export, forced init and forced generate.      *)
THEOREM MigrationsStayCommitted == Spec => []GeneratedFromCommittedShapes
<1>1. ProjectInv => GeneratedFromCommittedShapes
  BY DEF ProjectInv, GeneratedOK, GeneratedFromCommittedShapes
<1> QED BY <1>1, ProjectInvariant, PTL

(* In every reachable project the diff of every committed pair denies all  *)
(* that breaks, and more only where a base type is another text with the   *)
(* same encoding.                                                          *)
THEOREM CommittedDiffsMissNothing == Spec => []DiffDeniesWhatBreaks
<1>1. ProjectInv => DiffDeniesWhatBreaks
  <2> SUFFICES ASSUME ProjectInv, NEW pair \in CommittedPairs
               PROVE  LET denied == DeniedFields(BareFindings(From(pair), To(pair)))
                          breaks == Breaks(From(pair), To(pair))
                      IN /\ breaks \subseteq denied
                         /\ denied \ breaks \subseteq RetypedAlike(From(pair), To(pair))
    BY DEF DiffDeniesWhatBreaks
  <2>1. IsShape(From(pair)) /\ IsShape(To(pair))
    BY CommittedShapes
  <2>2. DeniedFields(BareFindings(From(pair), To(pair)))
          = Breaks(From(pair), To(pair)) \cup RetypedAlike(From(pair), To(pair))
    BY <2>1, DiffIsExact
  <2> QED BY <2>2
<1> QED BY <1>1, ProjectInvariant, PTL

-----------------------------------------------------------------------------
(* What generated code does.                                               *)

(* A visit of an entry that the new build wrote leaves alone every value   *)
(* that the code does not overwrite (codegen.rs, the emitted up).          *)
LEMMA VisitKeeps ==
  ASSUME NEW code, IsCode(code), NEW entry \in EntriesOf(code.to, "new"),
         NEW n \in DOMAIN entry \ Overwrites(code)
  PROVE  n \in DOMAIN Up(code, entry).entry /\ Up(code, entry).entry[n] = entry[n]
<1>1. /\ DOMAIN entry \subseteq FieldNames(code.to)
      /\ \A m \in DOMAIN entry : entry[m] = ValueOf(code.to, m, "new")
      /\ \A m \in FieldNames(code.to) : ~code.to.types[m].optional => m \in DOMAIN entry
  BY EntryFields
<1>2. CASE Up(code, entry).entry = entry
  BY <1>2
<1>3. CASE /\ ShadowReadable(code, entry)
           /\ Up(code, entry).entry = Rewritten(code, entry)
  <2>1. n \notin code.assign
    BY DEF Overwrites
  <2>2. n \notin Consumed(code, entry)
    <3> SUFFICES ASSUME n \in Consumed(code, entry) PROVE FALSE
      OBVIOUS
    <3>1. n \in DOMAIN code.consume /\ code.consume[n] \in DOMAIN entry
      BY DEF Consumed
    <3>2. code.consume[n] = n
      BY <1>1, <3>1 DEF Overwrites
    <3>3. Encoding[entry[n].base] = Encoding[code.from.types[n].base]
      BY <1>3, <3>1, <3>2 DEF ShadowReadable, Decodes
    <3>4. entry[n].base = code.to.types[n].base
      BY <1>1 DEF ValueOf
    <3>5. n \in Retyped(code.from, code.to)
      BY <3>1, <3>2 DEF IsCode, Retyped, KeptNames
    <3>6. n \in RetypedAlike(code.from, code.to)
      BY <3>3, <3>4, <3>5 DEF RetypedAlike
    <3> QED BY <3>1, <3>2, <3>6 DEF Overwrites
  <2>3. n \notin Changed(code, entry)
    BY <2>1, <2>2 DEF Changed
  <2>4. n \in DOMAIN Read(entry, code.to) /\ Read(entry, code.to)[n] = entry[n]
    BY <1>1 DEF Read
  <2>5. n \in DOMAIN Rewritten(code, entry) /\ Rewritten(code, entry)[n] = Read(entry, code.to)[n]
    BY <2>2, <2>3, <2>4 DEF Rewritten
  <2> QED BY <1>3, <2>4, <2>5
<1> QED BY <1>2, <1>3 DEF Up, Visited, Visit

(* Whatever was generated, from whatever plan, keeps what the new build    *)
(* writes while the migration runs.                                        *)
THEOREM NewWritesSurvive == Spec => []UpKeepsWhatTheNewBuildWrote
<1>1. ProjectInv => UpKeepsWhatTheNewBuildWrote
  <2> SUFFICES ASSUME ProjectInv, NEW pair \in DOMAIN generated,
                      NEW entry \in EntriesOf(generated[pair].to, "new"),
                      NEW n \in DOMAIN entry \ Overwrites(generated[pair])
               PROVE  LET after == Up(generated[pair], entry).entry
                      IN n \in DOMAIN after /\ after[n] = entry[n]
    BY DEF UpKeepsWhatTheNewBuildWrote
  <2>1. IsCode(generated[pair])
    BY DEF ProjectInv, GeneratedOK
  <2> QED BY <2>1, VisitKeeps
<1> QED BY <1>1, ProjectInvariant, PTL

-----------------------------------------------------------------------------
(* What the gate lets past.                                                *)

(* The worst of severities is one of them, and none is worse.              *)
LEMMA WorstBounds ==
  ASSUME NEW severities, severities \subseteq Severities, NEW s \in severities
  PROVE  /\ WorstOf(severities) \in severities /\ WorstOf(severities) \in Severities
         /\ s <= WorstOf(severities)
<1>1. \A t \in severities : t \in {1, 2, 3}
  BY DEF Severities, Info, Warning, Denied
<1>2. \E w \in severities : \A t \in severities : t <= w
  <2>1. CASE 3 \in severities
    BY <1>1, <2>1
  <2>2. CASE 3 \notin severities /\ 2 \in severities
    BY <1>1, <2>2
  <2>3. CASE 3 \notin severities /\ 2 \notin severities
    BY <1>1, <2>3
  <2> QED BY <2>1, <2>2, <2>3
<1>3. /\ WorstOf(severities) \in severities
      /\ \A t \in severities : t <= WorstOf(severities)
  BY <1>2 DEF WorstOf
<1> QED BY <1>3

(* Everything that check collects has a severity (diff_with_plan,          *)
(* key_space_findings).                                                    *)
LEMMA FindingsAreRated ==
  ASSUME NEW from, NEW to, NEW plan, NEW f \in Findings(from, to, plan)
  PROVE  f.severity \in Severities
<1>1. \A x, kind, severity : Finding(x, kind, severity).severity = severity
  BY DEF Finding
<1>2. \A condition, s, t : Rated(condition, s, t) \in {s, t}
  BY DEF Rated
<1>3. Info \in Severities /\ Warning \in Severities /\ Denied \in Severities
  BY DEF Severities
<1>4. CASE f \in ReorderFindings(from, to)
  <2>1. f = Finding(NoField, "Reordered", Info)
    BY <1>4 DEF ReorderFindings
  <2> QED BY <1>1, <1>3, <2>1
<1>5. CASE f \in FieldFindings(from, to, plan)
  <2>1. PICK x, kind, severity : f = Finding(x, kind, severity) /\ severity \in Severities
    <3>1. \A x : RenameSeverity(from, to, plan, x) \in Severities
      BY <1>2, <1>3 DEF RenameSeverity
    <3>2. \A x : /\ Rated(x \in DOMAIN plan.init, Info, Warning) \in Severities
                 /\ Rated(x \in DOMAIN plan.init, Warning, Denied) \in Severities
                 /\ Rated(Converts(plan, x), Warning, Denied) \in Severities
                 /\ Rated(x \in plan.dropped, Info, Denied) \in Severities
      BY <1>3 DEF Rated
    <3> QED BY <1>3, <1>5, <3>1, <3>2 DEF FieldFindings
  <2> QED BY <1>1, <2>1
<1> QED BY <1>4, <1>5 DEF Findings

LEMMA KeySpaceFindingsAreRated ==
  ASSUME NEW old, NEW new, NEW f \in KeySpaceFindings(old, new)
  PROVE  f.severity \in Severities
<1>1. \A x, kind, severity : Finding(x, kind, severity).severity = severity
  BY DEF Finding
<1>2. \E x, kind : f = Finding(x, kind, Info) \/ f = Finding(x, kind, Denied)
  BY DEF KeySpaceFindings
<1> QED BY <1>1, <1>2 DEF Severities

LEMMA CheckIsRated == CheckSeverities \subseteq Severities
<1>1. Info \in Severities /\ Warning \in Severities /\ Denied \in Severities
  BY DEF Severities
<1>2. SourceDrift \subseteq Severities /\ FamilyDrift \subseteq Severities
  BY <1>1 DEF SourceDrift, FamilyDrift
<1>3. KeySpaceDrift \subseteq Severities
  <2>1. { f.severity : f \in UNION { KeySpaceFindings(keyFile, space) :
                                       space \in DeclaredKeySpaces } } \subseteq Severities
    BY KeySpaceFindingsAreRated
  <2> QED BY <1>1, <2>1 DEF KeySpaceDrift
<1>4. \A name, p : PairSeverities(name, p) \subseteq Severities
  BY <1>1, FindingsAreRated DEF PairSeverities
<1> QED BY <1>2, <1>3, <1>4 DEF CheckSeverities

(* Nothing that a passing check collected is denied (check.rs run).        *)
LEMMA NothingDenied ==
  ASSUME CheckPasses("deny")
  PROVE  Denied \notin CheckSeverities
<1>1. WorstOf(CheckSeverities) < 3
  BY DEF CheckPasses, Threshold, Denied
<1>2. ASSUME Denied \in CheckSeverities
      PROVE  WorstOf(CheckSeverities) \in Severities /\ Denied <= WorstOf(CheckSeverities)
  BY <1>2, CheckIsRated, WorstBounds
<1> QED BY <1>1, <1>2 DEF Severities, Info, Warning, Denied

(* A set of versions with one below another has a greatest one below it.   *)
LEMMA GreatestBelow ==
  ASSUME NEW versions, versions \subseteq Nat, NEW top \in Nat,
         \E v \in versions : v < top
  PROVE  \E w \in versions : w < top /\ \A v \in versions : ~(w < v /\ v < top)
<1> DEFINE distances == { top - v : v \in { u \in versions : u < top } }
<1>1. distances \subseteq Nat /\ distances # {}
  <2>1. ASSUME NEW v \in versions, v < top PROVE top - v \in Nat
    <3>1. v \in Nat /\ top \in Nat
      OBVIOUS
    <3> HIDE DEF distances
    <3> QED BY <2>1, <3>1
  <2> QED BY <2>1
<1>2. \E x \in distances : \A y \in distances : ~ (<<y, x>> \in OpToRel(<, Nat))
  BY <1>1, NatLessThanWellFounded, WFMin
<1>3. PICK x \in distances : \A y \in distances : ~(y < x)
  BY <1>1, <1>2 DEF OpToRel
<1>4. PICK w \in versions : w < top /\ x = top - w
  OBVIOUS
<1>5. ASSUME NEW v \in versions, w < v, v < top
      PROVE  FALSE
  <2>1. top - v \in distances
    BY <1>5
  <2>2. v \in Nat /\ w \in Nat /\ w < v
    BY <1>5
  <2>3. top - v < top - w
    BY <2>2
  <2> QED BY <1>3, <1>4, <2>1, <2>3
<1> QED BY <1>4, <1>5

(* What passes the gate under `deny` is a source whose breaking changes    *)
(* are all declared: the committed step to each of its shapes is from the  *)
(* version just before, and the plan names every field at which an entry   *)
(* can break.  It takes the drift check, the gap check and the diff.       *)
THEOREM GateIsSound == Spec => []SourceBreaksAreNamed
<1>1. ASSUME ProjectInv PROVE SourceBreaksAreNamed
  <2> SUFFICES ASSUME CheckPasses("deny"), NEW d \in Declared,
                      \E v \in VersionsOf(snapshots, d.name) : v < d.version
               PROVE  LET pair == [name |-> d.name, from |-> d.version - 1]
                      IN /\ IsCommitted(pair)
                         /\ Breaks(From(pair), d.shape) \subseteq Mentioned(PlanOf(pair))
    BY DEF SourceBreaksAreNamed
  <2> DEFINE versions == VersionsOf(snapshots, d.name)
             pair == [name |-> d.name, from |-> d.version - 1]
  <2>1. Denied \notin CheckSeverities
    BY NothingDenied
  <2>2. AreSnapshots(snapshots)
    BY <1>1 DEF ProjectInv
  <2>3. d \in snapshots
    <3>1. Denied \notin SourceDrift
      BY <2>1 DEF CheckSeverities
    <3> QED BY <3>1 DEF SourceDrift, PlacedIn
  <2>4. versions \subseteq Nat /\ d.version \in versions /\ d.version \in Nat /\ IsShape(d.shape)
    BY <2>2, <2>3, ProjectAssumption DEF VersionsOf, AreSnapshots
  <2>5. PICK w \in versions :
          w < d.version /\ \A v \in versions : ~(w < v /\ v < d.version)
    BY <2>4, GreatestBelow
  <2>6. << w, d.version >> \in ConsecutivePairs(snapshots, d.name)
    BY <2>4, <2>5 DEF ConsecutivePairs
  <2>7. Denied \notin PairSeverities(d.name, << w, d.version >>)
    BY <2>1, <2>3, <2>6 DEF CheckSeverities, NamesIn
  <2>8. d.version = w + 1 /\ w \in Nat
    BY <2>4, <2>5, <2>7 DEF PairSeverities
  <2>9. pair.name = d.name /\ pair.from = w /\ pair = [name |-> d.name, from |-> w]
    BY <2>8
  <2>10. IsCommitted(pair)
    BY <2>4, <2>8, <2>9 DEF IsCommitted, Declares
  <2>11. From(pair) = Lookup(snapshots, d.name, w).shape /\ To(pair) = d.shape
    BY <2>2, <2>3, <2>8, <2>9, LookupFinds DEF From, To
  <2>12. IsShape(From(pair))
    BY <2>2, <2>9, <2>10, <2>11, LookupDeclared DEF IsCommitted
  <2>13. \A f \in Findings(From(pair), To(pair), PlanOf(pair)) : f.severity # Denied
    <3>1. { f.severity : f \in Findings(From(pair), To(pair), PlanOf(pair)) }
            \subseteq PairSeverities(d.name, << w, d.version >>)
      BY <2>8, <2>9 DEF PairSeverities
    <3> QED BY <2>7, <3>1
  <2>14. Breaks(From(pair), To(pair)) \subseteq Mentioned(PlanOf(pair))
    BY <2>4, <2>11, <2>12, <2>13, BreaksAreDeclared
  <2> QED BY <2>10, <2>11, <2>14
<1> QED BY <1>1, ProjectInvariant, PTL

(* What passes the gate under `warn` leaves no entry that traps before it  *)
(* is migrated, but at a field that the plan renames another to.           *)
THEOREM WarnGateIsSound == Spec => []WarnGateMeansReadable
<1>1. ASSUME ProjectInv PROVE WarnGateMeansReadable
  <2> SUFFICES ASSUME CheckPasses("warn"), NEW pair \in CommittedPairs,
                      NEW entry \in EntriesOf(From(pair), "old"),
                      NEW n \in TrapsAt(entry, To(pair))
               PROVE  n \in Range(PlanOf(pair).renamed)
    BY DEF WarnGateMeansReadable
  <2> DEFINE from == From(pair)
             to == To(pair)
             plan == PlanOf(pair)
             found == Findings(from, to, plan)
  <2>1. Warning \notin CheckSeverities /\ Denied \notin CheckSeverities
    <3>1. WorstOf(CheckSeverities) < 2
      BY DEF CheckPasses, Threshold, Warning
    <3>2. ASSUME NEW s \in CheckSeverities
          PROVE  WorstOf(CheckSeverities) \in Severities /\ s <= WorstOf(CheckSeverities)
      BY CheckIsRated, WorstBounds
    <3> QED BY <3>1, <3>2 DEF Severities, Info, Warning, Denied
  <2>2. /\ pair = [name |-> pair.name, from |-> pair.from] /\ pair.from \in Nat
        /\ pair.from \in VersionsOf(snapshots, pair.name)
        /\ pair.from + 1 \in VersionsOf(snapshots, pair.name)
    BY DEF CommittedPairs, IsCommitted, Declares, Pairs
  <2>3. AreSnapshots(snapshots)
    BY <1>1 DEF ProjectInv
  <2>4. VersionsOf(snapshots, pair.name) \subseteq Nat
    BY <2>3, ProjectAssumption DEF VersionsOf, AreSnapshots
  <2>5. << pair.from, pair.from + 1 >> \in ConsecutivePairs(snapshots, pair.name)
    BY <2>2, <2>4 DEF ConsecutivePairs
  <2>6. \A f \in found : f.severity \in CheckSeverities
    <3>1. { f.severity : f \in found }
            \subseteq PairSeverities(pair.name, << pair.from, pair.from + 1 >>)
      BY <2>2 DEF PairSeverities
    <3>2. PairSeverities(pair.name, << pair.from, pair.from + 1 >>) \subseteq CheckSeverities
      BY <2>2, <2>5 DEF CheckSeverities, NamesIn, VersionsOf
    <3> QED BY <3>1, <3>2
  <2>7. \A x, kind : /\ Finding(x, kind, Warning) \notin found
                     /\ Finding(x, kind, Denied) \notin found
    BY <2>1, <2>6 DEF Finding
  <2>8. IsShape(from) /\ IsShape(to)
    BY <2>2, <2>3, LookupDeclared DEF From, To, Declares
  <2>9. /\ DOMAIN entry \subseteq FieldNames(from)
        /\ \A m \in DOMAIN entry : entry[m] = ValueOf(from, m, "old")
        /\ \A m \in FieldNames(from) : ~from.types[m].optional => m \in DOMAIN entry
    BY EntryFields
  <2>10. n \notin Retyped(from, to)
    <3> SUFFICES ASSUME n \in Retyped(from, to) PROVE FALSE
      OBVIOUS
    <3>1. Finding(n, "Retyped", Rated(Converts(plan, n), Warning, Denied)) \in found
      BY DEF Findings, FieldFindings
    <3> QED BY <2>7, <3>1 DEF Rated
  <2>11. n \notin BecameRequired(from, to)
    <3> SUFFICES ASSUME n \in BecameRequired(from, to) PROVE FALSE
      OBVIOUS
    <3>1. Finding(n, "BecameRequired", Rated(n \in DOMAIN plan.init, Warning, Denied)) \in found
      BY DEF Findings, FieldFindings
    <3> QED BY <2>7, <3>1 DEF Rated
  <2>12. n \notin Added(from, to, plan, FALSE)
    <3> SUFFICES ASSUME n \in Added(from, to, plan, FALSE) PROVE FALSE
      OBVIOUS
    <3>1. Finding(n, "AddedRequired", Rated(n \in DOMAIN plan.init, Warning, Denied)) \in found
      BY DEF Findings, FieldFindings
    <3> QED BY <2>7, <3>1 DEF Rated
  <2>13. CASE n \in FieldNames(from)
    <3>1. n \in FieldNames(to)
      BY DEF TrapsAt
    <3>2. from.types[n].base = to.types[n].base
      BY <2>10, <2>13, <3>1 DEF Retyped, KeptNames
    <3>3. CASE n \in DOMAIN entry
      BY <2>9, <3>2, <3>3 DEF TrapsAt, Decodes, ValueOf
    <3>4. CASE n \notin DOMAIN entry
      <4>1. from.types[n].optional /\ ~to.types[n].optional
        BY <2>9, <2>13, <3>4, <2>8 DEF TrapsAt, IsShape, IsPartial, FieldNames, Type
      <4> QED BY <2>10, <2>11, <2>13, <3>1, <4>1 DEF BecameRequired, KeptNames
    <3> QED BY <3>3, <3>4
  <2>14. CASE n \notin FieldNames(from)
    <3>1. n \in NewNames(from, to) /\ ~to.types[n].optional
      BY <2>9, <2>14 DEF TrapsAt, NewNames
    <3>2. to.types[n].optional = FALSE
      BY <2>8, <3>1 DEF NewNames, IsShape, IsPartial, FieldNames, Type
    <3>3. n \in RenameTargets(from, to, plan)
      BY <2>12, <3>1, <3>2 DEF Added
    <3>4. Renames(plan, n) # {}
      BY <3>3 DEF RenameTargets
    <3> QED BY <3>4 DEF Renames, Range
  <2> QED BY <2>13, <2>14
<1> QED BY <1>1, ProjectInvariant, PTL

-----------------------------------------------------------------------------
(* What generate asks for.                                                 *)

(* The draft declares what the diff denies: it initialises the fields that *)
(* are added required or became so, converts those that are retyped, drops *)
(* those that are gone, and renames nothing (plan.rs draft).               *)
LEMMA DraftDeclares ==
  ASSUME NEW from, NEW to
  PROVE  LET plan == Draft(from, to)
         IN /\ DOMAIN plan.init
                 = Added(from, to, EmptyPlan, FALSE) \cup BecameRequired(from, to)
            /\ DOMAIN plan.converted = Retyped(from, to)
            /\ plan.dropped = FieldNames(from) \ FieldNames(to)
            /\ plan.renamed = Nothing
<1> DEFINE Of(kinds) == { f.field : f \in { g \in BareFindings(from, to) :
                            g.kind \in kinds /\ g.severity = Denied } }
<1>1. /\ Draft(from, to).init = [n \in Of({"AddedRequired", "BecameRequired"}) |-> "todo"]
      /\ Draft(from, to).dropped = Of({"Removed"})
      /\ Draft(from, to).converted = [n \in Of({"Retyped"}) |-> "todo"]
      /\ Draft(from, to).renamed = Nothing
  BY DEF Draft, EmptyPlan
<1>2. \A n, kinds : n \in Of(kinds) <=> \E kind \in kinds : n \in DeniedAs(from, to, kind)
  BY DEF DeniedAs
<1>3. /\ DeniedAs(from, to, "AddedRequired") = Added(from, to, EmptyPlan, FALSE)
      /\ DeniedAs(from, to, "BecameRequired") = BecameRequired(from, to)
      /\ DeniedAs(from, to, "Retyped") = Retyped(from, to)
      /\ DeniedAs(from, to, "Removed") = FieldNames(from) \ FieldNames(to)
  BY BareDenialsOfKinds
<1> HIDE DEF Of
<1>4. Of({"AddedRequired", "BecameRequired"})
        = Added(from, to, EmptyPlan, FALSE) \cup BecameRequired(from, to)
  <2>1. \A n : n \in Of({"AddedRequired", "BecameRequired"})
               <=> n \in DeniedAs(from, to, "AddedRequired") \/ n \in DeniedAs(from, to, "BecameRequired")
    BY <1>2
  <2> QED BY <1>3, <2>1
<1>5. Of({"Removed"}) = FieldNames(from) \ FieldNames(to)
  <2>1. \A n : n \in Of({"Removed"}) <=> n \in DeniedAs(from, to, "Removed")
    BY <1>2
  <2> QED BY <1>3, <2>1
<1>6. Of({"Retyped"}) = Retyped(from, to)
  <2>1. \A n : n \in Of({"Retyped"}) <=> n \in DeniedAs(from, to, "Retyped")
    BY <1>2
  <2> QED BY <1>3, <2>1
<1> QED BY <1>1, <1>4, <1>5, <1>6

(* Without a rename, nothing is denied under a plan that initialises what  *)
(* must have a value, converts what is retyped and drops what is gone      *)
(* (diff_with_plan).                                                       *)
LEMMA DeclaredIsNotDenied ==
  ASSUME NEW from, NEW to, NEW plan, plan.renamed = Nothing,
         Added(from, to, EmptyPlan, FALSE) \cup BecameRequired(from, to)
           \subseteq DOMAIN plan.init,
         \A n \in Retyped(from, to) : Converts(plan, n),
         FieldNames(from) \ FieldNames(to) \subseteq plan.dropped
  PROVE  Verdict(Findings(from, to, plan)) # Denied
<1> DEFINE found == Findings(from, to, plan)
           severities == { f.severity : f \in found }
<1>1. /\ RenameTargets(from, to, plan) = {}
      /\ RemovedNames(from, to, plan) = FieldNames(from) \ FieldNames(to)
      /\ Added(from, to, plan, FALSE) = Added(from, to, EmptyPlan, FALSE)
  BY NothingRenamed, NothingInEmptyPlan DEF Added
<1>2. ASSUME NEW f \in found, f.severity = Denied
      PROVE  FALSE
  <2>1. \A x, kind, s : f = Finding(x, kind, s) => s = Denied
    BY <1>2 DEF Finding
  <2>2. f \notin ReorderFindings(from, to)
    BY <2>1 DEF ReorderFindings, Info, Denied
  <2>3. f \in FieldFindings(from, to, plan)
    BY <2>2 DEF Findings
  <2>4. /\ \A x : f # Finding(x, "AddedOptional", Rated(x \in DOMAIN plan.init, Info, Warning))
        /\ \A x : f # Finding(x, "BecameOptional", Info)
        /\ \A x : f # Finding(x, "SpellingChanged", Info)
        /\ \A x \in DOMAIN plan.init :
             f # Finding(x, "AddedRequired", Rated(x \in DOMAIN plan.init, Warning, Denied))
        /\ \A x \in DOMAIN plan.init :
             f # Finding(x, "BecameRequired", Rated(x \in DOMAIN plan.init, Warning, Denied))
        /\ \A x : Converts(plan, x) =>
             f # Finding(x, "Retyped", Rated(Converts(plan, x), Warning, Denied))
        /\ \A x \in plan.dropped :
             f # Finding(x, "Removed", Rated(x \in plan.dropped, Info, Denied))
    BY <2>1 DEF Rated, Info, Warning, Denied
  <2> QED BY <1>1, <2>3, <2>4 DEF FieldFindings
<1>3. Denied \notin severities
  BY <1>2
<1>4. CASE severities = {}
  BY <1>4 DEF Verdict, WorstOf, Info, Denied
<1>5. CASE severities # {}
  <2>1. severities \subseteq Severities
    BY FindingsAreRated
  <2>2. WorstOf(severities) \in severities
    BY <1>5, <2>1, WorstBounds
  <2> QED BY <1>3, <2>2 DEF Verdict
<1> QED BY <1>4, <1>5

(* A filled-in draft is accepted (generate.rs).                            *)
LEMMA FilledDraft ==
  ASSUME NEW from, NEW to
  PROVE  /\ ~IsStale(from, to, Filled(Draft(from, to)))
         /\ CanGenerate(from, to, Filled(Draft(from, to)))
<1> DEFINE draft == Draft(from, to)
           plan == Filled(draft)
           Fill(file) == [n \in DOMAIN file |-> IF file[n] = "todo" THEN "filled" ELSE file[n]]
<1>1. /\ DOMAIN draft.init = Added(from, to, EmptyPlan, FALSE) \cup BecameRequired(from, to)
      /\ DOMAIN draft.converted = Retyped(from, to)
      /\ draft.dropped = FieldNames(from) \ FieldNames(to)
      /\ draft.renamed = Nothing
  BY DraftDeclares
<1>2. DOMAIN draft = {"init", "dropped", "converted", "renamed"}
  BY DEF Draft, EmptyPlan
<1>3. \A n \in DOMAIN draft.converted : draft.converted[n] = "todo"
  BY DEF Draft, EmptyPlan
<1> HIDE DEF draft
<1>4. /\ plan.init = Fill(draft.init) /\ plan.dropped = draft.dropped
      /\ plan.converted = Fill(draft.converted) /\ plan.renamed = draft.renamed
  BY <1>2 DEF Filled
<1> HIDE DEF plan
<1>5. /\ DOMAIN plan.init = Added(from, to, EmptyPlan, FALSE) \cup BecameRequired(from, to)
      /\ DOMAIN plan.converted = Retyped(from, to)
      /\ plan.dropped = FieldNames(from) \ FieldNames(to)
      /\ plan.renamed = Nothing
  BY <1>1, <1>4
<1>6. \A n \in Retyped(from, to) : Converts(plan, n)
  BY <1>1, <1>3, <1>4 DEF Converts
<1>7. RetypedTargets(from, to, plan) = {} /\ RenameSources(from, to, plan) = {}
  BY <1>5, NothingRenamed
<1>8. Added(from, to, EmptyPlan, FALSE) \subseteq NewNames(from, to)
  BY DEF Added
<1>9. ~IsStale(from, to, plan)
  BY <1>5, <1>7, <1>8 DEF IsStale, Nothing
<1>10. CanGenerate(from, to, plan)
  BY <1>5, <1>6, <1>7, DeclaredIsNotDenied DEF CanGenerate, Undecidable
<1> QED BY <1>9, <1>10 DEF plan, draft

(* In every reachable project, whatever pair was committed, filling in     *)
(* what plan drafts is all that generate asks for.                         *)
THEOREM FilledDraftsGenerate == Spec => []FilledDraftIsAccepted
<1>1. FilledDraftIsAccepted
  BY FilledDraft DEF FilledDraftIsAccepted
<1> QED BY <1>1, PTL

-----------------------------------------------------------------------------
(* Keys.                                                                   *)

(* A variant is found by its name where names are unique.                  *)
LEMMA VariantFound ==
  ASSUME NEW space, \A v, w \in Range(space) : v.name = w.name => v = w,
         NEW v \in Range(space)
  PROVE  VariantOf(space, v.name) = v
  BY DEF VariantOf

(* A key space that changed without a denied finding still has every       *)
(* variant there was, with its payload and its mark (key_space_findings).  *)
LEMMA UndeniedKeepsVariants ==
  ASSUME NEW old, NEW new,
         \A v, w \in Range(old) : v.name = w.name => v = w,
         \A f \in KeySpaceFindings(old, new) : f.severity # Denied,
         NEW v \in Range(old)
  PROVE  \E w \in Range(new) :
           w.name = v.name /\ w.payload = v.payload /\ w.migration = v.migration
<1> DEFINE both == VariantNames(old) \cap VariantNames(new)
           Differs(n) == VariantOf(old, n).payload # VariantOf(new, n).payload
           Moved(n) == VariantOf(old, n).migration # VariantOf(new, n).migration
           Of(names, kind, severity) == { Finding(n, kind, severity) : n \in names }
           found == UNION {
             Of(VariantNames(new) \ VariantNames(old), "variant added", Info),
             Of({ n \in both : Differs(n) }, "payload changed", Denied),
             Of({ n \in both : Moved(n) }, "#[migration] moved", Denied),
             Of(VariantNames(old) \ VariantNames(new), "variant removed", Denied) }
<1>1. KeySpaceFindings(old, new) = IF found = {} /\ old # new
                                   THEN {Finding(NoField, "reordered", Info)} ELSE found
  BY DEF KeySpaceFindings
<1>2. \A f \in found : f \in KeySpaceFindings(old, new)
  BY <1>1
<1>3. \A x, kind : Finding(x, kind, Denied) \notin found
  <2>1. \A x, kind : Finding(x, kind, Denied).severity = Denied
    BY DEF Finding
  <2> HIDE DEF found
  <2> QED BY <1>2, <2>1
<1>4. v.name \in VariantNames(old)
  BY DEF VariantNames
<1>5. v.name \in VariantNames(new)
  <2> SUFFICES ASSUME v.name \notin VariantNames(new) PROVE FALSE
    OBVIOUS
  <2>1. Finding(v.name, "variant removed", Denied) \in found
    BY <1>4
  <2> HIDE DEF found
  <2> QED BY <1>3, <2>1
<1>6. ~Differs(v.name)
  <2> SUFFICES ASSUME Differs(v.name) PROVE FALSE
    OBVIOUS
  <2>1. v.name \in { n \in both : Differs(n) }
    BY <1>4, <1>5
  <2>2. Finding(v.name, "payload changed", Denied) \in found
    BY <2>1
  <2> HIDE DEF found
  <2> QED BY <1>3, <2>2
<1>7. ~Moved(v.name)
  <2> SUFFICES ASSUME Moved(v.name) PROVE FALSE
    OBVIOUS
  <2>1. v.name \in { n \in both : Moved(n) }
    BY <1>4, <1>5
  <2>2. Finding(v.name, "#[migration] moved", Denied) \in found
    BY <2>1
  <2> HIDE DEF found
  <2> QED BY <1>3, <2>2
<1>8. VariantOf(old, v.name) = v
  BY VariantFound
<1>9. /\ VariantOf(new, v.name) \in Range(new)
      /\ VariantOf(new, v.name).name = v.name
  BY <1>5 DEF VariantNames, VariantOf
<1> QED BY <1>6, <1>7, <1>8, <1>9

(* What passes check keeps every stored key, as far as the key space is    *)
(* the enum that is looked at, and the framework's records where they are  *)
(* if the committed key space marks their variant.                         *)
THEOREM PassingKeepsKeys == Spec => []KeysStayReachable
<1>1. ASSUME ProjectInv PROVE KeysStayReachable
  <2> SUFFICES ASSUME CheckPasses("deny"), keyFile # NoKeySpace
               PROVE  \E f \in Declaring :
                        LET space == KeySpaceOf(keys[f])
                        IN /\ Declaring = {f}
                           /\ \A v \in Range(keyFile) :
                                \E w \in Range(space) : w.name = v.name /\ w.payload = v.payload
                           /\ Marked(keyFile) # {} /\ Builds(space) =>
                                Bookkeeping(space) = Bookkeeping(keyFile)
    BY DEF KeysStayReachable
  <2>1. Denied \notin KeySpaceDrift
    BY NothingDenied DEF CheckSeverities
  <2>2. ~KeySpaceFails /\ DeclaredKeySpaces # {}
    BY <2>1 DEF KeySpaceDrift
  <2>3. PICK f \in Declaring : TRUE
    BY <2>2 DEF DeclaredKeySpaces
  <2> DEFINE space == KeySpaceOf(keys[f])
  <2>4. Declaring = {f}
    <3>1. IsFiniteSet(Declaring)
      BY <1>1, ProjectAssumption, FS_Subset, FS_Interval DEF Declaring, ProjectInv, KeysOK
    <3>2. Cardinality(Declaring) \in Nat /\ ~(Cardinality(Declaring) > 1)
      BY <2>2, <3>1, FS_CardinalityType DEF KeySpaceFails
    <3>3. Cardinality(Declaring) # 0
      BY <2>3, <3>1, FS_EmptySet
    <3>4. Cardinality(Declaring) = 1
      BY <3>2, <3>3
    <3> QED BY <2>3, <3>1, <3>4, FS_Singleton
  <2>5. space \in DeclaredKeySpaces
    BY <2>3 DEF DeclaredKeySpaces
  <2> HIDE DEF space
  <2>6. \A g \in KeySpaceFindings(keyFile, space) : g.severity # Denied
    BY <2>1, <2>5 DEF KeySpaceDrift
  <2>7. \A v, w \in Range(keyFile) : v.name = w.name => v = w
    <3>1. keyFile \in KeySpaces \ {NoKeySpace}
      BY <1>1 DEF ProjectInv, KeysOK
    <3>2. PICK files \in InitialKeyEnums \cup KeyEnums :
            \E file \in Range(files) : keyFile \in { e.variants : e \in Range(file) }
      BY <3>1 DEF KeySpaces
    <3>3. PICK file \in Range(files) : keyFile \in { e.variants : e \in Range(file) }
      BY <3>2
    <3>4. PICK e \in Range(file) : keyFile = e.variants
      BY <3>3
    <3>5. \A v, w \in Range(e.variants) : v.name = w.name => v = w
      BY ProjectAssumption
    <3> QED BY <3>4, <3>5
  <2>8. \A v \in Range(keyFile) : \E w \in Range(space) :
          w.name = v.name /\ w.payload = v.payload /\ w.migration = v.migration
    BY <2>6, <2>7, UndeniedKeepsVariants
  <2>9. ASSUME Marked(keyFile) # {}, Builds(space)
        PROVE  Bookkeeping(space) = Bookkeeping(keyFile)
    <3>1. Marked(keyFile) \subseteq Marked(space)
      BY <2>8 DEF Marked
    <3>2. Marked(space) = Marked(keyFile)
      BY <2>9, <3>1 DEF Builds
    <3> QED BY <2>9, <3>2 DEF Bookkeeping
  <2> QED BY <2>3, <2>4, <2>8, <2>9 DEF space
<1> QED BY <1>1, ProjectInvariant, PTL

-----------------------------------------------------------------------------
(* What a plan that generate accepts says of the change.                   *)

(* Nothing is denied under it (codegen.rs generate).                       *)
LEMMA AcceptedIsNotDenied ==
  ASSUME NEW from, NEW to, NEW plan, CanGenerate(from, to, plan),
         NEW f \in Findings(from, to, plan)
  PROVE  f.severity # Denied
<1> DEFINE severities == { g.severity : g \in Findings(from, to, plan) }
<1>1. severities \subseteq Severities
  BY FindingsAreRated
<1>2. WorstOf(severities) # Denied
  BY DEF CanGenerate, Verdict
<1>3. f.severity \in severities
  OBVIOUS
<1>4. WorstOf(severities) \in Severities /\ f.severity <= WorstOf(severities)
  <2> HIDE DEF severities
  <2> QED BY <1>1, <1>3, WorstBounds
<1> QED BY <1>2, <1>4 DEF Severities, Info, Warning, Denied

(* So it initialises what is added required or became so, converts what is *)
(* retyped, and drops what is removed (diff_with_plan).                    *)
LEMMA AcceptedDeclares ==
  ASSUME NEW from, NEW to, NEW plan, CanGenerate(from, to, plan)
  PROVE  /\ Added(from, to, plan, FALSE) \cup BecameRequired(from, to) \subseteq DOMAIN plan.init
         /\ \A n \in Retyped(from, to) : Converts(plan, n)
         /\ RemovedNames(from, to, plan) \subseteq plan.dropped
<1>1. \A x, kind : Finding(x, kind, Denied) \notin Findings(from, to, plan)
  BY AcceptedIsNotDenied DEF Finding
<1>2. ASSUME NEW n \in Added(from, to, plan, FALSE), n \notin DOMAIN plan.init
      PROVE  FALSE
  <2>1. Finding(n, "AddedRequired", Denied) \in Findings(from, to, plan)
    BY <1>2 DEF Findings, FieldFindings, Rated
  <2> QED BY <1>1, <2>1
<1>3. ASSUME NEW n \in BecameRequired(from, to), n \notin DOMAIN plan.init
      PROVE  FALSE
  <2>1. Finding(n, "BecameRequired", Denied) \in Findings(from, to, plan)
    BY <1>3 DEF Findings, FieldFindings, Rated
  <2> QED BY <1>1, <2>1
<1>4. ASSUME NEW n \in Retyped(from, to), ~Converts(plan, n)
      PROVE  FALSE
  <2>1. Finding(n, "Retyped", Denied) \in Findings(from, to, plan)
    BY <1>4 DEF Findings, FieldFindings, Rated
  <2> QED BY <1>1, <2>1
<1>5. ASSUME NEW n \in RemovedNames(from, to, plan), n \notin plan.dropped
      PROVE  FALSE
  <2>1. Finding(n, "Removed", Denied) \in Findings(from, to, plan)
    BY <1>5 DEF Findings, FieldFindings, Rated
  <2> QED BY <1>1, <2>1
<1> QED BY <1>2, <1>3, <1>4, <1>5

(* What a visit does: it leaves the entry, or it reads it through the new  *)
(* shape and rewrites it.                                                  *)
LEMMA VisitOutcomes ==
  ASSUME NEW code, NEW entry
  PROVE  \/ Visited(code, entry).entry = entry
         \/ /\ Readable(entry, code.to) /\ ShadowReadable(code, entry)
            /\ Changed(code, entry) # {}
            /\ Visited(code, entry).entry = Rewritten(code, entry)
  BY DEF Visited, Visit

(* A conversion keeps whose value it is and, of a value of the type it is  *)
(* for, that it was not spoiled.                                           *)
LEMMA ConversionKeeps ==
  ASSUME NEW code, NEW new, NEW n, NEW writer,
         code.consume[new] = n
  PROVE  LET value == Converted(code, new, ValueOf(code.from, n, writer))
         IN value.of = n /\ value.by = writer /\ ~value.spoiled
<1> DEFINE b == code.from.types[n].base
           c == code.to.types[new].base
           value == ValueOf(code.from, n, writer)
<1>1. value = [base |-> b, of |-> n, by |-> writer, spoiled |-> FALSE]
  BY DEF ValueOf
<1>2. value.base = b
  BY <1>1
<1>3. (value.spoiled \/ value.base # b) = FALSE
  BY <1>1, <1>2
<1>4. Converted(code, new, value) = [value EXCEPT !.base = c, !.spoiled = FALSE]
  BY <1>3 DEF Converted
<1> HIDE DEF b, c, value
<1>5. Converted(code, new, value) = [base |-> c, of |-> n, by |-> writer, spoiled |-> FALSE]
  BY <1>1, <1>4
<1> QED BY <1>5 DEF value

(* A value that is not given up is still there after a visit, under its    *)
(* own name or the one it is renamed to (codegen.rs).                      *)
LEMMA VisitLosesNothingElse ==
  ASSUME NEW from, NEW to, NEW plan, IsShape(from), IsShape(to),
         CanGenerate(from, to, plan),
         NEW entry \in EntriesOf(from, "old"),
         NEW n \in DOMAIN entry \ (plan.dropped \cup RenamedAway(from, plan)
                                     \cup Generated(from, to, plan).assign)
  PROVE  \E value \in Range(Up(Generated(from, to, plan), entry).entry) :
           value.of = n /\ value.by = "old" /\ ~value.spoiled
<1> DEFINE code == Generated(from, to, plan)
           renamed == RenameTargets(from, to, plan)
<1>1. /\ code.from = from /\ code.to = to
      /\ code.fill = DOMAIN plan.init \cap Added(from, to, plan, TRUE)
      /\ code.assign = Added(from, to, plan, FALSE) \cup BecameRequired(from, to)
      /\ code.consume = [m \in renamed \cup Retyped(from, to) |->
                           IF m \in renamed THEN RenamedFrom(plan, m) ELSE m]
  BY DEF Generated, Code
<1>2. n \notin code.assign
  OBVIOUS
<1> HIDE DEF code
<1>3. /\ DOMAIN entry \subseteq FieldNames(from)
      /\ \A m \in DOMAIN entry : entry[m] = ValueOf(from, m, "old")
  BY EntryFields
<1>4. /\ n \in DOMAIN entry /\ n \in FieldNames(from)
      /\ entry[n].of = n /\ entry[n].by = "old" /\ ~entry[n].spoiled
      /\ entry[n].base = from.types[n].base
  BY <1>3 DEF ValueOf
<1>5. CASE Up(code, entry).entry = entry
  BY <1>4, <1>5 DEF code, Range
<1>6. CASE /\ Readable(entry, to)
           /\ Up(code, entry).entry = Rewritten(code, entry)
  <2> DEFINE read == Read(entry, to)
  <2>1. DOMAIN Rewritten(code, entry) = DOMAIN read \cup Changed(code, entry)
    BY <1>1 DEF Rewritten
  <2>2. CASE n \in FieldNames(to)
    <3>1. n \in DOMAIN read /\ read[n] = entry[n]
      BY <1>4, <2>2 DEF Read
    <3>2. n \notin renamed
      BY <1>4 DEF RenameTargets, NewNames
    <3>3. n \in DOMAIN Rewritten(code, entry)
      BY <2>1, <3>1
    <3>4. CASE n \in Consumed(code, entry)
      <4>1. n \in DOMAIN code.consume /\ code.consume[n] = n
        BY <1>1, <3>2, <3>4 DEF Consumed
      <4>2. Rewritten(code, entry)[n] = Converted(code, n, entry[n])
        BY <3>4, <4>1, <3>3, <2>1 DEF Rewritten
      <4>3. entry[n] = ValueOf(code.from, n, "old")
        BY <1>1, <1>3, <1>4
      <4>4. /\ Converted(code, n, entry[n]).of = n /\ Converted(code, n, entry[n]).by = "old"
            /\ ~Converted(code, n, entry[n]).spoiled
        BY <4>1, <4>3, ConversionKeeps
      <4> QED BY <1>6, <3>3, <4>2, <4>4 DEF code, Range
    <3>5. CASE n \notin Consumed(code, entry)
      <4>1. n \notin Changed(code, entry)
        BY <1>2, <1>4, <3>5 DEF Changed
      <4>2. Rewritten(code, entry)[n] = entry[n]
        BY <1>1, <3>1, <4>1, <3>5 DEF Rewritten
      <4> QED BY <1>4, <1>6, <3>3, <4>2 DEF code, Range
    <3> QED BY <3>4, <3>5
  <2>3. CASE n \in RenameSources(from, to, plan)
    <3>1. PICK new \in renamed : n = RenamedFrom(plan, new)
      BY <2>3 DEF RenameSources
    <3>2. new \in DOMAIN code.consume /\ code.consume[new] = n
      BY <1>1, <3>1
    <3>3. new \notin DOMAIN entry
      BY <1>3, <3>1 DEF RenameTargets, NewNames
    <3>4. new \in Consumed(code, entry) /\ new \in Changed(code, entry)
      BY <1>4, <3>2, <3>3 DEF Consumed, Changed
    <3>5. Rewritten(code, entry)[new] = Converted(code, new, entry[n])
      BY <3>2, <3>4 DEF Rewritten
    <3>6. entry[n] = ValueOf(code.from, n, "old")
      BY <1>1, <1>3, <1>4
    <3>7. /\ Converted(code, new, entry[n]).of = n /\ Converted(code, new, entry[n]).by = "old"
          /\ ~Converted(code, new, entry[n]).spoiled
      BY <3>2, <3>6, ConversionKeeps
    <3>8. new \in DOMAIN Rewritten(code, entry)
      BY <2>1, <3>4
    <3> QED BY <1>6, <3>5, <3>7, <3>8 DEF code, Range
  <2>4. n \in FieldNames(to) \/ n \in RenameSources(from, to, plan)
    <3> SUFFICES ASSUME n \notin FieldNames(to), n \notin RenameSources(from, to, plan)
                 PROVE  FALSE
      OBVIOUS
    <3>1. n \in FieldNames(from) /\ n \notin plan.dropped /\ n \notin RenamedAway(from, plan)
      BY <1>3
    <3>2. n \notin RemovedNames(from, to, plan)
      BY <3>1, AcceptedDeclares
    <3>3. n \in DOMAIN plan.renamed /\ plan.renamed[n] \in FieldNames(to)
      BY <3>1, <3>2 DEF RemovedNames
    <3>4. /\ plan.renamed[n] \notin FieldNames(from)
          /\ Renames(plan, plan.renamed[n]) = {n}
      BY <3>1, <3>3 DEF RenamedAway
    <3>5. RenamedFrom(plan, plan.renamed[n]) = n
      BY <3>4 DEF RenamedFrom
    <3>6. plan.renamed[n] \in RenameTargets(from, to, plan)
      BY <3>1, <3>3, <3>4, <3>5 DEF RenameTargets, NewNames
    <3> QED BY <3>5, <3>6 DEF RenameSources
  <2> QED BY <2>2, <2>3, <2>4
<1>7. \/ Up(code, entry).entry = entry
      \/ /\ Readable(entry, to)
         /\ Up(code, entry).entry = Rewritten(code, entry)
  BY <1>1, VisitOutcomes DEF Up, Visit
<1> QED BY <1>5, <1>6, <1>7

(* In every reachable project, with any plan that people wrote and         *)
(* generate accepts, the generated code loses no value of an old entry but *)
(* those that the plan gives up.                                           *)
THEOREM GeneratedLosesNothingElse == Spec => []NothingElseIsLost
<1>1. ASSUME ProjectInv PROVE NothingElseIsLost
  <2> SUFFICES ASSUME NEW pair \in CommittedPairs,
                      CanGenerate(From(pair), To(pair), PlanOf(pair)),
                      NEW entry \in EntriesOf(From(pair), "old"),
                      NEW n \in DOMAIN entry \
                            (PlanOf(pair).dropped \cup RenamedAway(From(pair), PlanOf(pair))
                               \cup Generated(From(pair), To(pair), PlanOf(pair)).assign)
               PROVE  \E value \in
                            Range(Up(Generated(From(pair), To(pair), PlanOf(pair)), entry).entry) :
                        value.of = n /\ value.by = "old" /\ ~value.spoiled
    BY DEF NothingElseIsLost
  <2>1. IsShape(From(pair)) /\ IsShape(To(pair))
    BY <1>1, CommittedShapes
  <2> QED BY <2>1, VisitLosesNothingElse
<1> QED BY <1>1, ProjectInvariant, PTL

-----------------------------------------------------------------------------
(* What the derive expands to.                                             *)

(* A plan within the derive's reach that generate accepts initialises only *)
(* new optional fields, and generate writes for it what the derive does    *)
(* (expand_migration).                                                     *)
LEMMA DerivedIsGenerated ==
  ASSUME NEW from, NEW to, NEW plan, IsShape(from), IsShape(to),
         CanDerive(to, plan), CanGenerate(from, to, plan), ~IsStale(from, to, plan)
  PROVE  /\ DOMAIN plan.init \subseteq FieldNames(to) \ FieldNames(from)
         /\ Generated(from, to, plan) = Derived(from, to, plan)
<1>1. /\ plan.renamed = Nothing /\ plan.converted = Nothing
      /\ \A n \in DOMAIN plan.init : n \in FieldNames(to) /\ to.types[n].optional
  BY DEF CanDerive
<1>2. /\ RenameTargets(from, to, plan) = {}
      /\ RetypedTargets(from, to, plan) = {}
  BY <1>1, NothingRenamed
<1>3. Retyped(from, to) = {}
  BY <1>1, AcceptedDeclares DEF Converts, Nothing
<1>4. BecameRequired(from, to) = {}
  <2> SUFFICES ASSUME NEW n \in BecameRequired(from, to) PROVE FALSE
    OBVIOUS
  <2>1. n \in DOMAIN plan.init
    BY AcceptedDeclares
  <2> QED BY <1>1, <2>1 DEF BecameRequired
<1>5. Added(from, to, plan, FALSE) = {}
  <2> SUFFICES ASSUME NEW n \in Added(from, to, plan, FALSE) PROVE FALSE
    OBVIOUS
  <2>1. n \in DOMAIN plan.init
    BY AcceptedDeclares
  <2>2. to.types[n].optional = FALSE
    BY DEF Added
  <2> QED BY <1>1, <2>1, <2>2
<1>6. DOMAIN plan.init \subseteq NewNames(from, to)
  BY <1>2, <1>3, <1>4 DEF IsStale
<1>7. \A n \in DOMAIN plan.init : to.types[n].optional = TRUE
  BY <1>1 DEF IsShape, IsPartial, FieldNames, Type
<1>8. DOMAIN plan.init \cap Added(from, to, plan, TRUE) = DOMAIN plan.init
  BY <1>2, <1>6, <1>7 DEF Added
<1>9. [n \in RenameTargets(from, to, plan) \cup Retyped(from, to) |->
         IF n \in RenameTargets(from, to, plan) THEN RenamedFrom(plan, n) ELSE n] = Nothing
  BY <1>2, <1>3 DEF Nothing
<1>10. Added(from, to, plan, FALSE) \cup BecameRequired(from, to) = {}
  BY <1>4, <1>5
<1>11. Generated(from, to, plan) = Code(from, to, DOMAIN plan.init, {}, Nothing)
  BY <1>8, <1>9, <1>10 DEF Generated
<1> QED BY <1>6, <1>11 DEF Derived, NewNames

(* The derive's up leaves every entry as the generated one does: what      *)
(* differs is whether it decodes an entry it has nothing to do with.       *)
THEOREM DeriveAgrees == Spec => []DerivedMatchesGenerated
<1>1. ASSUME NEW code, NEW entry
      PROVE  DerivedUp(code, entry).entry = Up(code, entry).entry
  <2>1. CASE code.fill = {} /\ code.assign = {} /\ DOMAIN code.consume = {}
    <3>1. Changed(code, entry) = {}
      BY <2>1 DEF Changed, Consumed
    <3> QED BY <2>1, <3>1 DEF Up, DerivedUp, Visited, Visit
  <2>2. CASE ~(code.fill = {} /\ code.assign = {} /\ DOMAIN code.consume = {})
    BY <2>2 DEF Up, DerivedUp
  <2> QED BY <2>1, <2>2
<1>2. ASSUME ProjectInv PROVE DerivedMatchesGenerated
  <2> SUFFICES ASSUME NEW pair \in CommittedPairs,
                      CanDerive(To(pair), PlanOf(pair)),
                      CanGenerate(From(pair), To(pair), PlanOf(pair)),
                      ~IsStale(From(pair), To(pair), PlanOf(pair))
               PROVE  \A entry : DerivedUp(Derived(From(pair), To(pair), PlanOf(pair)), entry).entry
                                   = Up(Generated(From(pair), To(pair), PlanOf(pair)), entry).entry
    BY DEF DerivedMatchesGenerated
  <2>1. IsShape(From(pair)) /\ IsShape(To(pair))
    BY <1>2, CommittedShapes
  <2>2. Generated(From(pair), To(pair), PlanOf(pair)) = Derived(From(pair), To(pair), PlanOf(pair))
    BY <2>1, DerivedIsGenerated
  <2> QED BY <1>1, <2>2
<1> QED BY <1>2, ProjectInvariant, PTL

(* Filling fields that an entry does not have, and clearing them again,    *)
(* leaves what the new build reads of it (expand_migration, down).         *)
LEMMA ClearUndoesFill ==
  ASSUME NEW from, NEW to, NEW fill, fill \subseteq FieldNames(to),
         NEW entry, fill \cap DOMAIN entry = {}
  PROVE  LET code == Code(from, to, fill, {}, Nothing)
         IN Read(Down(code, DerivedUp(code, entry).entry).entry, to) = Read(entry, to)
<1> DEFINE code == Code(from, to, fill, {}, Nothing)
           read == Read(entry, to)
           after == DerivedUp(code, entry).entry
<1>1. /\ code.from = from /\ code.to = to /\ code.fill = fill
      /\ code.assign = {} /\ DOMAIN code.consume = {}
  BY DEF Code, Nothing
<1> HIDE DEF code
<1>2. Consumed(code, entry) = {} /\ Changed(code, entry) = fill
  BY <1>1 DEF Consumed, Changed
<1>3. CASE after = entry
  <2>1. Down(code, entry).entry = entry
    BY <1>1 DEF Down, Visit
  <2> QED BY <1>3, <2>1 DEF code
<1>4. CASE Readable(entry, to) /\ fill # {} /\ after = Rewritten(code, entry)
  <2>1. after = [n \in DOMAIN read \cup fill |->
                   IF n \in fill THEN ValueOf(to, n, "init") ELSE read[n]]
    <3>1. Rewritten(code, entry) = [n \in DOMAIN read \cup fill |->
            CASE n \in {} -> Converted(code, n, entry[code.consume[n]])
              [] n \in fill \ {} -> Initialised(code, n)
              [] OTHER -> read[n]]
      BY <1>1, <1>2 DEF Rewritten
    <3>2. \A n : Initialised(code, n) = ValueOf(to, n, "init")
      BY <1>1 DEF Initialised
    <3> QED BY <1>4, <3>1, <3>2
  <2>2. /\ DOMAIN read = DOMAIN entry \cap FieldNames(to)
        /\ \A n \in DOMAIN read : read[n] = entry[n]
    BY DEF Read
  <2>3. /\ DOMAIN after = DOMAIN read \cup fill
        /\ \A n \in fill : after[n].base = to.types[n].base
        /\ \A n \in DOMAIN read : after[n] = entry[n]
    BY <2>1, <2>2 DEF ValueOf
  <2> HIDE DEF after, read
  <2>4. Readable(after, to)
    <3> SUFFICES ASSUME NEW n \in TrapsAt(after, to) PROVE FALSE
      BY DEF Readable
    <3>1. n \in FieldNames(to) /\ n \notin fill
      BY <2>3 DEF TrapsAt, Decodes
    <3>2. n \in TrapsAt(entry, to)
      BY <2>2, <2>3, <3>1 DEF TrapsAt, Decodes
    <3> QED BY <1>4, <3>2 DEF Readable
  <2>5. fill \cap DOMAIN after # {}
    BY <1>4, <2>3
  <2>6. /\ DOMAIN Read(after, to) = DOMAIN read \cup fill
        /\ \A n \in DOMAIN read : Read(after, to)[n] = entry[n]
    BY <2>2, <2>3 DEF Read
  <2>7. Down(code, after).entry = Restrict(Read(after, to), DOMAIN Read(after, to) \ fill)
    BY <1>1, <2>4, <2>5 DEF Down, Visit
  <2>8. DOMAIN Read(after, to) \ fill = DOMAIN read
    BY <2>2, <2>6
  <2>9. Restrict(Read(after, to), DOMAIN read) = [n \in DOMAIN read |-> entry[n]]
    BY <2>6 DEF Restrict
  <2>10. Read([n \in DOMAIN read |-> entry[n]], to) = [n \in DOMAIN read |-> entry[n]]
    BY <2>2 DEF Read
  <2>11. [n \in DOMAIN read |-> entry[n]] = Read(entry, to)
    BY <2>2 DEF Read
  <2> QED BY <2>7, <2>8, <2>9, <2>10, <2>11 DEF after, code
<1>5. \/ after = entry
      \/ Readable(entry, to) /\ fill # {} /\ after = Rewritten(code, entry)
  BY <1>1, <1>2, VisitOutcomes DEF DerivedUp
<1> QED BY <1>3, <1>4, <1>5

(* The `down` of a derive is an inverse of its `up` on every old entry, as *)
(* far as the new build reads it.                                          *)
THEOREM DownIsInverse == Spec => []DownUndoesUp
<1>1. ASSUME ProjectInv PROVE DownUndoesUp
  <2> SUFFICES ASSUME NEW pair \in CommittedPairs,
                      CanDerive(To(pair), PlanOf(pair)),
                      CanGenerate(From(pair), To(pair), PlanOf(pair)),
                      ~IsStale(From(pair), To(pair), PlanOf(pair)),
                      NEW entry \in EntriesOf(From(pair), "old")
               PROVE  LET code == Derived(From(pair), To(pair), PlanOf(pair))
                      IN Read(Down(code, DerivedUp(code, entry).entry).entry, To(pair))
                           = Read(entry, To(pair))
    BY DEF DownUndoesUp
  <2>1. IsShape(From(pair)) /\ IsShape(To(pair))
    BY <1>1, CommittedShapes
  <2>2. DOMAIN PlanOf(pair).init \subseteq FieldNames(To(pair)) \ FieldNames(From(pair))
    BY <2>1, DerivedIsGenerated
  <2>3. DOMAIN entry \subseteq FieldNames(From(pair))
    BY EntryFields
  <2> QED BY <2>2, <2>3, ClearUndoesFill DEF Derived
<1> QED BY <1>1, ProjectInvariant, PTL
=============================================================================
