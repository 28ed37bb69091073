----------------------------- MODULE Preflight -----------------------------
(***************************************************************************)
(* The checks an operator makes against a contract before an upgrade       *)
(* (preflight.rs), asked of the contract of Migration at any moment.  They *)
(* only read: the operators are functions of a state.  assert_upgradeable, *)
(* which is the guard of a call that writes, is in RunDriver.              *)
(***************************************************************************)
EXTENDS Migration

(* The keys the index of a version has never seen (count_orphans).         *)
Orphans(v, keys) == { k \in keys : ~ContainsKey(index[v], k) }

(* assert_keys_indexed. *)
KeysAreIndexed(v, keys) == Orphans(v, keys) = {}

-----------------------------------------------------------------------------
(* preflight.rs:150-154: a key the index has never seen "means the         *)
(* migration would leave real data behind".  Asked about the keys the      *)
(* application has registered where migrations walk, at the recorded       *)
(* version, the check says so only while a run is in flight, or after one  *)
(* was aborted, whose writes are listed under the newer version: outside a *)
(* run nothing else, writes, removals, backfill, declarations, deployments *)
(* and clears in any order, makes it fail, and the batch that completes a  *)
(* run makes it pass, whatever aborted runs came before.  The keys that a  *)
(* late declaration stranded, which migrations do leave behind, it always  *)
(* reports.                                                                *)
OnlyAnAbortedRunOrphansKeys ==
  [][/\ mig.status # "Running" /\ KeysAreIndexed(Recorded, Tracked) =>
          KeysAreIndexed(Recorded, Tracked)'
     /\ mig.status = "Running" /\ mig'.status = "Completed" =>
          KeysAreIndexed(Recorded, Tracked)'
     /\ (stranded \subseteq Orphans(Recorded, registered))']_vars
=============================================================================
