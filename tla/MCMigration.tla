---------------------------- MODULE MCMigration ----------------------------
(* Migration for TLC: the migrations a build may carry.                    *)
EXTENDS Preflight

(* One reversible step.                                                    *)
OneStep == {[from |-> 1, to |-> 2, down |-> TRUE]}

(* Two steps, the second without a down, and one that skips a version,     *)
(* which begin must refuse.                                                *)
TwoSteps ==
  {[from |-> 1, to |-> 2, down |-> TRUE],
   [from |-> 2, to |-> 3, down |-> FALSE],
   [from |-> 1, to |-> 3, down |-> TRUE]}

(* The entries no migration manages, once they are of the second shape.    *)
UnmanagedSecondShape == (Keys \ Managed) \X {2}
=============================================================================
