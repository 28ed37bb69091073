------------------------------- MODULE Schema -------------------------------
(***************************************************************************)
(* Storage shapes and the entries written under them                       *)
(* (soroban-migrate-schema/src/model.rs).                                  *)
(*                                                                         *)
(* A schema is a named, versioned list of fields.  What the tools compare  *)
(* of a field's type is its base type, with one `Option<..>` taken off,    *)
(* whether it was optional, and the text as written.  The base types are   *)
(* compared as texts: that two of them are spellings of one type, aliases, *)
(* or types whose values are stored alike, is not known to the tools.  An  *)
(* entry is what the contract stores for a struct: a map from field names  *)
(* to values, where a field that is `None` is the same as one that is not  *)
(* there.  Decoding it is the ledger's (CAP-86), not this repository's: a  *)
(* name the struct has no field for is dropped, an `Option` field that is  *)
(* missing is `None`, and a required field that is missing, or a value     *)
(* stored in another way, traps.                                           *)
(***************************************************************************)
EXTENDS Naturals, Sequences, FiniteSets, Functions

CONSTANTS
  Names,      \* field names
  Bases,      \* base types, as they are written
  Encoding,   \* how their values are stored: bases that share one decode each other's
  Spellings   \* ways of writing the rest of a type, such as core::option::Option<..>

(* An encoding goes by the name of one of the types that have it.          *)
ASSUME SchemaAssumption == Encoding \in [Bases -> Bases]

(* A type as declared (Field).                                             *)
Type == [base : Bases, optional : BOOLEAN, spelling : Spellings]

(* A function from some of S to T.                                         *)
IsPartial(f, S, T) == DOMAIN f \subseteq S /\ f \in [DOMAIN f -> T]

(* The fields of a shape, by name, and the order they are declared in.     *)
IsShape(shape) ==
  /\ IsPartial(shape.types, Names, Type)
  /\ IsInjective(shape.order)
  /\ Range(shape.order) = DOMAIN shape.types

FieldNames(shape) == DOMAIN shape.types

(* Whose code wrote a value: the old build, the new build, or a migration  *)
(* that initialised the field.                                             *)
Writers == {"old", "new", "init"}

(* A value: the type it is of, the field it was written for, its writer,   *)
(* and whether a conversion meant for another type was applied to it.      *)
Value == [base : Bases, of : Names, by : Writers, spoiled : BOOLEAN]
ValueOf(shape, n, writer) ==
  [base |-> shape.types[n].base, of |-> n, by |-> writer, spoiled |-> FALSE]

(* The entries a build with this shape writes: every required field, and   *)
(* any of the optional ones.                                               *)
EntriesOf(shape, writer) ==
  LET required == { n \in FieldNames(shape) : ~shape.types[n].optional }
  IN { [n \in present |-> ValueOf(shape, n, writer)] :
         present \in { s \in SUBSET FieldNames(shape) : required \subseteq s } }

(* A value is readable as one of a type that is stored in the same way.    *)
Decodes(value, base) == Encoding[value.base] = Encoding[base]

(* The fields of a shape that an entry cannot be decoded through.          *)
TrapsAt(entry, shape) ==
  { n \in FieldNames(shape) :
      IF n \in DOMAIN entry THEN ~Decodes(entry[n], shape.types[n].base)
                            ELSE ~shape.types[n].optional }

Readable(entry, shape) == TrapsAt(entry, shape) = {}

(* A decoded entry, and so what is stored when it is written back.         *)
Read(entry, shape) == [n \in DOMAIN entry \cap FieldNames(shape) |-> entry[n]]

-----------------------------------------------------------------------------
(* Sets of schemas (SchemaSet): records with a name, a version, a shape.   *)

(* insert refuses a second, different shape for a name and version.        *)
Conflict(schemas) ==
  \E s, t \in schemas : s.name = t.name /\ s.version = t.version /\ s.shape # t.shape

NamesIn(schemas) == { s.name : s \in schemas }
VersionsOf(schemas, name) == { s.version : s \in { t \in schemas : t.name = name } }
Lookup(schemas, name, version) ==
  CHOOSE s \in schemas : s.name = name /\ s.version = version
Declares(schemas, name, version) == version \in VersionsOf(schemas, name)

(* Versions with none in between.                                          *)
ConsecutivePairs(schemas, name) ==
  { p \in VersionsOf(schemas, name) \X VersionsOf(schemas, name) :
      /\ p[1] < p[2]
      /\ \A v \in VersionsOf(schemas, name) : ~(p[1] < v /\ v < p[2]) }

GapsOf(schemas, name) ==
  { p \in ConsecutivePairs(schemas, name) : p[2] # p[1] + 1 }
=============================================================================
