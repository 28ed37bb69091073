--------------------------- MODULE SchemaDiffProofs ---------------------------
(***************************************************************************)
(* What the diff finds is what breaks, for all names, types and shapes.    *)
(***************************************************************************)
EXTENDS SchemaDiff, TLAPS

(* A plan without a rename renames nothing (MigrationPlan::renamed_from).  *)
LEMMA NothingRenamed ==
  ASSUME NEW from, NEW to, NEW plan, plan.renamed = Nothing
  PROVE  /\ \A n : Renames(plan, n) = {}
         /\ RenameTargets(from, to, plan) = {}
         /\ RenameSources(from, to, plan) = {}
         /\ RetypedTargets(from, to, plan) = {}
         /\ RemovedNames(from, to, plan) = FieldNames(from) \ FieldNames(to)
<1>1. \A new : Renames(plan, new) = {}
  BY DEF Renames, Nothing
<1>2. RenameTargets(from, to, plan) = {}
  BY <1>1 DEF RenameTargets
<1>3. RenameSources(from, to, plan) = {} /\ RetypedTargets(from, to, plan) = {}
  BY <1>2 DEF RenameSources, RetypedTargets
<1>4. DOMAIN plan.renamed = {}
  BY DEF Nothing
<1>5. RemovedNames(from, to, plan) = FieldNames(from) \ FieldNames(to)
  BY <1>3, <1>4 DEF RemovedNames
<1> QED BY <1>1, <1>2, <1>3, <1>5

LEMMA NothingInEmptyPlan ==
  /\ EmptyPlan.renamed = Nothing /\ EmptyPlan.dropped = {}
  /\ \A n : n \notin DOMAIN EmptyPlan.init
  /\ \A n : ~Converts(EmptyPlan, n)
  BY DEF EmptyPlan, Nothing, Converts

(* The fields denied under one kind of finding.                            *)
DeniedAs(from, to, kind) ==
  { f.field : f \in { g \in BareFindings(from, to) : g.kind = kind /\ g.severity = Denied } }

(* The diff without a plan denies exactly the required additions, what is  *)
(* retyped, what became required, and what is gone, each under its own     *)
(* kind (diff).                                                            *)
LEMMA BareDenialsByKind ==
  ASSUME NEW from, NEW to, NEW n, NEW kind
  PROVE  n \in DeniedAs(from, to, kind)
           <=> \/ kind = "AddedRequired" /\ n \in Added(from, to, EmptyPlan, FALSE)
               \/ kind = "Retyped" /\ n \in Retyped(from, to)
               \/ kind = "BecameRequired" /\ n \in BecameRequired(from, to)
               \/ kind = "Removed" /\ n \in FieldNames(from) \ FieldNames(to)
<1> DEFINE plan == EmptyPlan
           findings == Findings(from, to, plan)
<1>1. /\ \A x : x \notin DOMAIN plan.init /\ x \notin plan.dropped
      /\ \A x : ~Converts(plan, x)
  BY NothingInEmptyPlan
<1>2. /\ RemovedNames(from, to, plan) = FieldNames(from) \ FieldNames(to)
      /\ RenameTargets(from, to, plan) = {}
  BY NothingRenamed, NothingInEmptyPlan
<1>3. ASSUME \/ kind = "AddedRequired" /\ n \in Added(from, to, plan, FALSE)
             \/ kind = "Retyped" /\ n \in Retyped(from, to)
             \/ kind = "BecameRequired" /\ n \in BecameRequired(from, to)
             \/ kind = "Removed" /\ n \in FieldNames(from) \ FieldNames(to)
      PROVE  Finding(n, kind, Denied) \in findings
  BY <1>1, <1>2, <1>3 DEF Findings, FieldFindings, Rated
<1>4. ASSUME NEW f \in findings, f.field = n, f.kind = kind, f.severity = Denied
      PROVE  \/ kind = "AddedRequired" /\ n \in Added(from, to, plan, FALSE)
             \/ kind = "Retyped" /\ n \in Retyped(from, to)
             \/ kind = "BecameRequired" /\ n \in BecameRequired(from, to)
             \/ kind = "Removed" /\ n \in FieldNames(from) \ FieldNames(to)
  <2>1. \A x, y, s : f = Finding(x, y, s) => x = n /\ y = kind /\ s = Denied
    BY <1>4 DEF Finding
  <2>2. f \notin ReorderFindings(from, to)
    BY <2>1 DEF ReorderFindings, Info, Denied
  <2>3. f \in FieldFindings(from, to, plan)
    BY <2>2 DEF Findings
  <2>4. /\ \A x : f # Finding(x, "AddedOptional", Rated(x \in DOMAIN plan.init, Info, Warning))
        /\ \A x : f # Finding(x, "BecameOptional", Info)
        /\ \A x : f # Finding(x, "SpellingChanged", Info)
    BY <2>1 DEF Rated, Info, Warning, Denied
  <2>5. \/ \E x \in Added(from, to, plan, FALSE) :
             f = Finding(x, "AddedRequired", Rated(x \in DOMAIN plan.init, Warning, Denied))
        \/ \E x \in Retyped(from, to) :
             f = Finding(x, "Retyped", Rated(Converts(plan, x), Warning, Denied))
        \/ \E x \in BecameRequired(from, to) :
             f = Finding(x, "BecameRequired", Rated(x \in DOMAIN plan.init, Warning, Denied))
        \/ \E x \in RemovedNames(from, to, plan) :
             f = Finding(x, "Removed", Rated(x \in plan.dropped, Info, Denied))
    BY <2>3, <2>4, <1>2 DEF FieldFindings
  <2>6. CASE \E x \in Added(from, to, plan, FALSE) :
               f = Finding(x, "AddedRequired", Rated(x \in DOMAIN plan.init, Warning, Denied))
    <3>1. PICK x \in Added(from, to, plan, FALSE) :
            f = Finding(x, "AddedRequired", Rated(x \in DOMAIN plan.init, Warning, Denied))
      BY <2>6
    <3>2. x = n /\ kind = "AddedRequired"
      BY <2>1, <3>1
    <3> QED BY <3>1, <3>2
  <2>7. CASE \E x \in Retyped(from, to) :
               f = Finding(x, "Retyped", Rated(Converts(plan, x), Warning, Denied))
    <3>1. n \in Retyped(from, to) /\ kind = "Retyped"
      BY <2>1, <2>7
    <3> QED BY <3>1
  <2>8. CASE \E x \in BecameRequired(from, to) :
               f = Finding(x, "BecameRequired", Rated(x \in DOMAIN plan.init, Warning, Denied))
    <3>1. n \in BecameRequired(from, to) /\ kind = "BecameRequired"
      BY <2>1, <2>8
    <3> QED BY <3>1
  <2>9. CASE \E x \in RemovedNames(from, to, plan) :
               f = Finding(x, "Removed", Rated(x \in plan.dropped, Info, Denied))
    <3>1. n \in FieldNames(from) \ FieldNames(to) /\ kind = "Removed"
      BY <1>2, <2>1, <2>9
    <3> QED BY <3>1
  <2> QED BY <2>5, <2>6, <2>7, <2>8, <2>9
<1>5. \A s : /\ Finding(n, kind, s).field = n /\ Finding(n, kind, s).kind = kind
             /\ Finding(n, kind, s).severity = s
  BY DEF Finding
<1> QED BY <1>3, <1>4, <1>5 DEF DeniedAs, BareFindings

LEMMA BareDenialsOfKinds ==
  ASSUME NEW from, NEW to
  PROVE  /\ DeniedAs(from, to, "AddedRequired") = Added(from, to, EmptyPlan, FALSE)
         /\ DeniedAs(from, to, "Retyped") = Retyped(from, to)
         /\ DeniedAs(from, to, "BecameRequired") = BecameRequired(from, to)
         /\ DeniedAs(from, to, "Removed") = FieldNames(from) \ FieldNames(to)
<1> DEFINE added == Added(from, to, EmptyPlan, FALSE)
<1>1. \A n, kind : n \in DeniedAs(from, to, kind)
        <=> \/ kind = "AddedRequired" /\ n \in added
            \/ kind = "Retyped" /\ n \in Retyped(from, to)
            \/ kind = "BecameRequired" /\ n \in BecameRequired(from, to)
            \/ kind = "Removed" /\ n \in FieldNames(from) \ FieldNames(to)
  BY BareDenialsByKind
<1> HIDE DEF added
<1>2. DeniedAs(from, to, "AddedRequired") = added
  BY <1>1
<1>3. DeniedAs(from, to, "Retyped") = Retyped(from, to)
  BY <1>1
<1>4. DeniedAs(from, to, "BecameRequired") = BecameRequired(from, to)
  BY <1>1
<1>5. DeniedAs(from, to, "Removed") = FieldNames(from) \ FieldNames(to)
  BY <1>1
<1> QED BY <1>2, <1>3, <1>4, <1>5 DEF added

(* Together they are the denied fields.                                    *)
LEMMA BareDenials ==
  ASSUME NEW from, NEW to
  PROVE  DeniedFields(BareFindings(from, to))
           = UNION { Added(from, to, EmptyPlan, FALSE), Retyped(from, to),
                     BecameRequired(from, to), FieldNames(from) \ FieldNames(to) }
<1>1. ASSUME NEW n
      PROVE  n \in DeniedFields(BareFindings(from, to))
               <=> \E kind : n \in DeniedAs(from, to, kind)
  BY DEF DeniedFields, DeniedAs
<1>2. ASSUME NEW n
      PROVE  n \in DeniedFields(BareFindings(from, to))
               <=> \/ n \in Added(from, to, EmptyPlan, FALSE) \/ n \in Retyped(from, to)
                   \/ n \in BecameRequired(from, to)
                   \/ n \in FieldNames(from) \ FieldNames(to)
  BY <1>1, BareDenialsByKind
<1> QED BY <1>2

-----------------------------------------------------------------------------
(* Entries.                                                                *)

(* The build with a shape may write all of its fields, and may leave out   *)
(* any that is optional.                                                   *)
LEMMA SomeEntries ==
  ASSUME NEW shape, NEW writer
  PROVE  /\ [n \in FieldNames(shape) |-> ValueOf(shape, n, writer)] \in EntriesOf(shape, writer)
         /\ \A m \in FieldNames(shape) : shape.types[m].optional =>
              [n \in FieldNames(shape) \ {m} |-> ValueOf(shape, n, writer)]
                \in EntriesOf(shape, writer)
<1> DEFINE required == { n \in FieldNames(shape) : ~shape.types[n].optional }
           Of(present) == [n \in present |-> ValueOf(shape, n, writer)]
           presents == { s \in SUBSET FieldNames(shape) : required \subseteq s }
<1>1. EntriesOf(shape, writer) = { Of(present) : present \in presents }
  BY DEF EntriesOf
<1>2. FieldNames(shape) \in presents
  OBVIOUS
<1>3. \A m \in FieldNames(shape) : shape.types[m].optional =>
        FieldNames(shape) \ {m} \in presents
  OBVIOUS
<1> HIDE DEF presents
<1> QED BY <1>1, <1>2, <1>3

(* What is known of an entry that a build with a shape wrote.              *)
LEMMA EntryFields ==
  ASSUME NEW shape, NEW writer, NEW entry \in EntriesOf(shape, writer)
  PROVE  /\ DOMAIN entry \subseteq FieldNames(shape)
         /\ \A n \in DOMAIN entry : entry[n] = ValueOf(shape, n, writer)
         /\ \A n \in FieldNames(shape) : ~shape.types[n].optional => n \in DOMAIN entry
  BY DEF EntriesOf

(* The diff without a plan denies every field at which some entry of the   *)
(* old build breaks, and nothing else but the fields whose base type is    *)
(* written as another text while its values are stored as before: of those *)
(* it denies all, since it compares texts (diff.rs, diff).                 *)
THEOREM DiffIsExact ==
  ASSUME NEW from, NEW to, IsShape(from), IsShape(to)
  PROVE  DeniedFields(BareFindings(from, to)) = Breaks(from, to) \cup RetypedAlike(from, to)
<1>1. /\ FieldNames(from) \subseteq Names /\ FieldNames(to) \subseteq Names
      /\ \A n \in FieldNames(from) : from.types[n] \in Type
      /\ \A n \in FieldNames(to) : to.types[n] \in Type
  BY DEF IsShape, IsPartial, FieldNames
<1>2. Added(from, to, EmptyPlan, FALSE)
        = { n \in FieldNames(to) \ FieldNames(from) : to.types[n].optional = FALSE }
  BY NothingRenamed, NothingInEmptyPlan DEF Added, NewNames
<1> DEFINE full == [n \in FieldNames(from) |-> ValueOf(from, n, "old")]
<1>3. full \in EntriesOf(from, "old")
  BY SomeEntries
<1>4. ASSUME NEW n, n \in DeniedFields(BareFindings(from, to))
      PROVE  n \in Breaks(from, to) \cup RetypedAlike(from, to)
  <2>1. CASE n \in FieldNames(to) \ FieldNames(from) /\ to.types[n].optional = FALSE
    <3>1. n \in TrapsAt(full, to)
      BY <2>1 DEF TrapsAt
    <3> QED BY <1>1, <1>3, <2>1, <3>1 DEF Breaks
  <2>2. CASE n \in Retyped(from, to)
    <3>1. CASE Encoding[from.types[n].base] = Encoding[to.types[n].base]
      BY <2>2, <3>1 DEF RetypedAlike
    <3>2. CASE Encoding[from.types[n].base] # Encoding[to.types[n].base]
      <4>1. n \in FieldNames(from) /\ n \in FieldNames(to)
        BY <2>2 DEF Retyped, KeptNames
      <4>2. full[n].base = from.types[n].base
        BY <4>1 DEF ValueOf
      <4>3. n \in TrapsAt(full, to)
        BY <3>2, <4>1, <4>2 DEF TrapsAt, Decodes
      <4> QED BY <1>1, <1>3, <4>1, <4>3 DEF Breaks
    <3> QED BY <3>1, <3>2
  <2>3. CASE n \in BecameRequired(from, to)
    <3> DEFINE without == [m \in FieldNames(from) \ {n} |-> ValueOf(from, m, "old")]
    <3>1. n \in FieldNames(from) /\ n \in FieldNames(to)
          /\ from.types[n].optional /\ ~to.types[n].optional
      BY <2>3 DEF BecameRequired, KeptNames
    <3>2. without \in EntriesOf(from, "old")
      BY <3>1, SomeEntries
    <3>3. n \in TrapsAt(without, to)
      BY <3>1 DEF TrapsAt
    <3> QED BY <1>1, <3>1, <3>2, <3>3 DEF Breaks
  <2>4. CASE n \in FieldNames(from) \ FieldNames(to)
    <3>1. n \in DOMAIN full \ DOMAIN Read(full, to)
      BY <2>4 DEF Read
    <3> QED BY <1>1, <1>3, <2>4, <3>1 DEF Breaks
  <2>5. n \in UNION { Added(from, to, EmptyPlan, FALSE), Retyped(from, to),
                      BecameRequired(from, to), FieldNames(from) \ FieldNames(to) }
    BY <1>4, BareDenials
  <2>6. \/ n \in Added(from, to, EmptyPlan, FALSE) \/ n \in Retyped(from, to)
        \/ n \in BecameRequired(from, to) \/ n \in FieldNames(from) \ FieldNames(to)
    BY <2>5
  <2> QED BY <1>2, <2>1, <2>2, <2>3, <2>4, <2>6
<1>5. ASSUME NEW n, n \in Breaks(from, to)
      PROVE  n \in DeniedFields(BareFindings(from, to))
  <2>1. PICK entry \in EntriesOf(from, "old") :
          n \in TrapsAt(entry, to) \/ n \in DOMAIN entry \ DOMAIN Read(entry, to)
    BY <1>5 DEF Breaks
  <2>2. /\ DOMAIN entry \subseteq FieldNames(from)
        /\ \A m \in DOMAIN entry : entry[m] = ValueOf(from, m, "old")
        /\ \A m \in FieldNames(from) : ~from.types[m].optional => m \in DOMAIN entry
    BY EntryFields
  <2>3. CASE n \in DOMAIN entry \ DOMAIN Read(entry, to)
    <3>1. n \in FieldNames(from) \ FieldNames(to)
      BY <2>2, <2>3 DEF Read
    <3> QED BY <3>1, BareDenials
  <2>4. CASE n \in TrapsAt(entry, to) /\ n \in DOMAIN entry
    <3>1. n \in Retyped(from, to)
      BY <2>2, <2>4 DEF TrapsAt, Decodes, Retyped, KeptNames, ValueOf
    <3> QED BY <3>1, BareDenials
  <2>5. CASE n \in TrapsAt(entry, to) /\ n \notin DOMAIN entry /\ n \in FieldNames(from)
    <3>1. n \in FieldNames(to) /\ ~to.types[n].optional /\ from.types[n].optional
      BY <2>2, <2>5, <1>1 DEF TrapsAt
    <3>2. n \in Retyped(from, to) \cup BecameRequired(from, to)
      BY <2>5, <3>1 DEF Retyped, BecameRequired, KeptNames
    <3> QED BY <3>2, BareDenials
  <2>6. CASE n \in TrapsAt(entry, to) /\ n \notin FieldNames(from)
    <3>1. n \in FieldNames(to) /\ ~to.types[n].optional
      BY <2>2, <2>6 DEF TrapsAt
    <3>2. to.types[n].optional = FALSE
      BY <1>1, <3>1 DEF Type
    <3>3. n \in Added(from, to, EmptyPlan, FALSE)
      BY <1>2, <2>6, <3>1, <3>2
    <3> QED BY <3>3, BareDenials
  <2> QED BY <2>1, <2>3, <2>4, <2>5, <2>6
<1>6. RetypedAlike(from, to) \subseteq DeniedFields(BareFindings(from, to))
  BY BareDenials DEF RetypedAlike
<1> QED BY <1>4, <1>5, <1>6

(* A plan under which nothing is denied names every field at which an      *)
(* entry of the old build can break, as one it initialises, drops or       *)
(* converts, or on either side of a rename (diff_with_plan).               *)
THEOREM BreaksAreDeclared ==
  ASSUME NEW from, NEW to, NEW plan, IsShape(from), IsShape(to),
         \A f \in Findings(from, to, plan) : f.severity # Denied
  PROVE  Breaks(from, to) \subseteq Mentioned(plan)
<1> SUFFICES ASSUME NEW n, n \in Breaks(from, to)
             PROVE  n \in Mentioned(plan)
  OBVIOUS
<1>1. n \in UNION { Added(from, to, EmptyPlan, FALSE), Retyped(from, to),
                    BecameRequired(from, to), FieldNames(from) \ FieldNames(to) }
  <2>1. n \in Breaks(from, to) \cup RetypedAlike(from, to)
    OBVIOUS
  <2>2. n \in DeniedFields(BareFindings(from, to))
    BY <2>1, DiffIsExact
  <2> QED BY <2>2, BareDenials
<1>2. CASE n \in Added(from, to, EmptyPlan, FALSE)
  <2>1. n \in NewNames(from, to) /\ to.types[n].optional = FALSE
    BY <1>2 DEF Added
  <2>2. CASE n \in RenameTargets(from, to, plan)
    <3>1. Renames(plan, n) # {}
      BY <2>2 DEF RenameTargets
    <3> QED BY <3>1 DEF Renames, Mentioned, Range
  <2>3. CASE n \notin RenameTargets(from, to, plan)
    <3>1. n \in Added(from, to, plan, FALSE)
      BY <2>1, <2>3 DEF Added
    <3>2. Finding(n, "AddedRequired", Rated(n \in DOMAIN plan.init, Warning, Denied))
            \in Findings(from, to, plan)
      BY <3>1 DEF Findings, FieldFindings
    <3>3. n \in DOMAIN plan.init
      BY <3>2 DEF Finding, Rated
    <3> QED BY <3>3 DEF Mentioned, Range
  <2> QED BY <2>2, <2>3
<1>3. CASE n \in Retyped(from, to)
  <2>1. Finding(n, "Retyped", Rated(Converts(plan, n), Warning, Denied))
          \in Findings(from, to, plan)
    BY <1>3 DEF Findings, FieldFindings
  <2>2. Converts(plan, n)
    BY <2>1 DEF Finding, Rated
  <2> QED BY <2>2 DEF Converts, Mentioned, Range
<1>4. CASE n \in BecameRequired(from, to)
  <2>1. Finding(n, "BecameRequired", Rated(n \in DOMAIN plan.init, Warning, Denied))
          \in Findings(from, to, plan)
    BY <1>4 DEF Findings, FieldFindings
  <2>2. n \in DOMAIN plan.init
    BY <2>1 DEF Finding, Rated
  <2> QED BY <2>2 DEF Mentioned, Range
<1>5. CASE n \in FieldNames(from) \ FieldNames(to)
  <2>1. CASE n \in RemovedNames(from, to, plan)
    <3>1. Finding(n, "Removed", Rated(n \in plan.dropped, Info, Denied))
            \in Findings(from, to, plan)
      BY <2>1 DEF Findings, FieldFindings
    <3>2. n \in plan.dropped
      BY <3>1 DEF Finding, Rated
    <3> QED BY <3>2 DEF Mentioned, Range
  <2>2. CASE n \in RenameSources(from, to, plan)
    <3>1. PICK new \in RenameTargets(from, to, plan) : n = RenamedFrom(plan, new)
      BY <2>2 DEF RenameSources
    <3>2. n \in Renames(plan, new)
      BY <3>1 DEF RenameTargets, RenamedFrom
    <3> QED BY <3>2 DEF Renames, Mentioned, Range
  <2>3. CASE n \in DOMAIN plan.renamed
    BY <2>3 DEF Mentioned, Range
  <2> QED BY <1>5, <2>1, <2>2, <2>3 DEF RemovedNames
<1> QED BY <1>1, <1>2, <1>3, <1>4, <1>5
=============================================================================
