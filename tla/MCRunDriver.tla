---------------------------- MODULE MCRunDriver ----------------------------
(* RunDriver and DryRun for TLC: the vault's only migration.               *)
EXTENDS DryRun, TLC

AddFreezeFlag == [from |-> 1, to |-> 2, down |-> TRUE]
OneMigration == {AddFreezeFlag}

(* Operators run the same command.                                         *)
Symmetry == Permutations(Operators)
=============================================================================
