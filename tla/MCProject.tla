----------------------------- MODULE MCProject -----------------------------
(***************************************************************************)
(* Small projects for TLC.  The shapes have at most three fields, taken so *)
(* that every kind of finding is made, with another one beside it.         *)
(***************************************************************************)
EXTENDS Project, TLC

(* Types: required, optional, of the other base, of a base that is stored  *)
(* like the first, and the optional one spelled in another way.            *)
T == [base |-> "T", optional |-> FALSE, spelling |-> "short"]
OptT == [T EXCEPT !.optional = TRUE]
U == [T EXCEPT !.base = "U"]
OptU == [OptT EXCEPT !.base = "U"]
T2 == [T EXCEPT !.base = "T2"]
OptT2 == [T2 EXCEPT !.optional = TRUE]
LongOptT == [OptT EXCEPT !.spelling = "long"]

MCEncoding == [base \in Bases |-> IF base = "T2" THEN "T" ELSE base]

Ordered(types, order) == [types |-> types, order |-> order]
A(t) == Ordered("a" :> t, << "a" >>)
AB(t, u) == Ordered("a" :> t @@ "b" :> u, << "a", "b" >>)

OldShapes == { A(T), A(OptT), AB(T, OptT) }

(* What the old field becomes, and what is put beside it or in its place.  *)
Onto(t) == Ordered("b" :> t, << "b" >>)
Alone == { A(t) : t \in {T, OptT, U, OptU, T2, OptT2, LongOptT} }
Beside ==
  { AB(T, t) : t \in {T, OptT} }
    \cup { Ordered("c" :> OptT, << "c" >>),
           Ordered("a" :> T @@ "b" :> OptT, << "b", "a" >>),
           Ordered("a" :> T @@ "c" :> T, << "a", "c" >>) }

Steps ==
  ({A(T)} \X ((Alone \ {A(LongOptT)}) \cup {Onto(T), Onto(OptU), Onto(T2)} \cup Beside))
    \cup ({A(OptT)} \X ((Alone \ {A(OptT), A(T2), A(OptT2)}) \cup {Onto(T), Onto(OptT)}))
    \cup ({AB(T, OptT)} \X ({A(OptT), Onto(OptT)} \cup Beside))

One(shape) == {Declaration(1, TRUE, 1, shape)}
Both(v1, v2) == One(v1) \cup {Declaration(2, TRUE, 2, v2)}

(* Mistakes: the name left out of one attribute or of all, no version, a   *)
(* version skipped, one used twice, the old struct taken out.              *)
Mistaken ==
  LET v1 == A(T)
      v2 == AB(T, T)
  IN { {Declaration(1, FALSE, 1, v1), Declaration(2, FALSE, 2, v2)},
       One(v1) \cup {Declaration(2, FALSE, 2, v2)},
       One(v1) \cup {Declaration(2, TRUE, Unparsable, v2)},
       One(v1) \cup {Declaration(2, TRUE, 3, v2)},
       One(v1) \cup {Declaration(2, TRUE, 1, v2)},
       One(v2),
       {Declaration(2, TRUE, 2, v2)},
       {} }

MCInitialSources ==
  { One(shape) : shape \in OldShapes }
    \cup { Both(step[1], step[2]) : step \in Steps }

(* Edits: the second version written, or written again; mistakes.          *)
MCSources ==
  { Both(A(T), v2) : v2 \in {AB(T, T), A(U)} }
    \cup {Both(A(OptT), A(T))} \cup Mistaken

(* Key enums: a derived one, carrying another payload, with the marker     *)
(* moved to a variant that is added, or missing and no longer derived, so  *)
(* that there is none; two in two files; and a second one in the same      *)
(* file, after the other and before it, where it lacks a variant.          *)
Variant(name, payload, migration) ==
  [name |-> name, payload |-> payload, migration |-> migration]
Balance == Variant("Balance", "Address", FALSE)
Record == Variant("Migration", "MigrationKey", TRUE)
Unmarked == Variant("Migration", "MigrationKey", FALSE)
File(variants) == << KeyEnum(TRUE, variants) >>
Committed == File(<< Balance, Record >>)
Other == << KeyEnum(FALSE, << Record >>) >>
MCInitialKeyEnums == { << Committed >> }
MCKeyEnums ==
  { << Committed >>,
    << File(<< Variant("Balance", "u32", FALSE), Record >>) >>,
    << File(<< Balance, Unmarked, Variant("Schema", "MigrationKey", TRUE) >>) >>,
    << << KeyEnum(FALSE, << Balance, Unmarked >>) >> >>,
    << Committed, Other >>,
    << Committed \o Other >>,
    << Other \o Committed >> }

\* For the run that looks at a key space without a marker.
UnmarkedKeyEnums == { << File(<< Balance, Unmarked >>) >> }
UnchangedSources == { One(A(T)) }

\* For the run that looks at one field becoming required.
RequiredSources == { Both(A(OptT), A(T)) }

\* For the run that looks at one field retyped to a type stored alike.
AlikeSources == { Both(A(T), A(T2)) }
============================================================================
