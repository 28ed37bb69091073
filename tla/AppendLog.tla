------------------------------ MODULE AppendLog ------------------------------
(***************************************************************************)
(* What a key index promises its readers: one log of keys that grows at    *)
(* its end, one key at a time, so that a position a cursor has passed, or  *)
(* has not reached yet, never moves; and that is discarded as a whole      *)
(* (index.rs and rollback.rs, module comments).                            *)
(*                                                                         *)
(* Which key is added is left open: a reset leaves the pages where they    *)
(* are, so a registration after one may make an older key readable again.  *)
(***************************************************************************)
EXTENDS Naturals, Sequences

CONSTANT Keys

VARIABLE log

Init == log = << >>

Push(k) == log' = Append(log, k)

Discard == log' = << >>

Next == Discard \/ \E k \in Keys : Push(k)

Spec == Init /\ [][Next]_log
=============================================================================
