------------------------------ MODULE IndexLog ------------------------------
(***************************************************************************)
(* One version's key index as a state machine: the applications' register  *)
(* calls, the register loop of an executor batch, and the reset with which *)
(* rollback::begin discards the index.  pushed is a history variable: the  *)
(* keys registered since the index was last empty, in order.               *)
(***************************************************************************)
EXTENDS KeyIndex, FiniteSets

CONSTANT MaxStale   \* bound: no reset once a page holds more keys than this

VARIABLES
  idx,     \* the summary and the pages of the index
  pushed   \* history: what was registered since creation or the last reset

vars == << idx, pushed >>

TypeOK ==
  /\ idx \in Index
  /\ pushed \in Seq(Keys)

Init ==
  /\ idx = EmptyIndex
  /\ pushed = << >>

\* Mutant: the counter runs past the ceiling of its u32.
RegisterKey_NoCeiling(k) ==
  /\ idx' = Register(idx, k)
  /\ pushed' = Append(pushed, k)

RegisterKey(k) ==
  /\ idx.len < MaxLen
  /\ idx' = Register(idx, k)
  /\ pushed' = Append(pushed, k)

ResetIndex ==
  /\ \A p \in Pages : Len(idx.pages[p]) <= MaxStale
  /\ idx' = Reset(idx)
  /\ pushed' = << >>

Next ==
  \/ \E k \in Keys : RegisterKey(k)
  \/ ResetIndex
Spec == Init /\ [][Next]_vars

-----------------------------------------------------------------------------
(* index.rs:117-120: a position inside the range the summary advertises    *)
(* always has a key on its page, so get and range never fail with          *)
(* CorruptIndex: also after a reset, whatever the pages still held.        *)
NeverCorrupt == \A i \in 0 .. (idx.len - 1) : Holds(idx, i)

(* index.rs:223: "Number of ledger entries the index occupies: its pages   *)
(* plus the summary", which the rent estimate of an operator rests on: the *)
(* pages that hold a key and that the summary reaches.  Pages that a reset *)
(* left behind and nothing has reached since are not counted.              *)
FootprintCountsEntries ==
  FootprintEntries(idx) =
    IF idx.len = 0 THEN 0
    ELSE Cardinality({p \in Pages : idx.pages[p] # << >> /\ FirstSlot(p) < idx.len}) + 1

(* index.rs:181, preflight.rs:149-154: contains, which the orphan check    *)
(* asks, finds every key that a walk of the index visits, and every key    *)
(* registered since the last reset; and nothing but what a walk visits, as *)
(* long as no reset has left keys on the pages.                            *)
ContainsFindsRegisteredKeys ==
  LET found == {k \in Keys : ContainsKey(idx, k)}
  IN  /\ Indexed(idx) \cup KeysOf(pushed) \subseteq found
      /\ Clean(idx) => found = Indexed(idx)

(* rollback.rs:5-7: a walk is stable because a cursor is a position.  The  *)
(* index is the log of AppendLog, to which a registration adds one key at  *)
(* the end and of which it moves, drops or changes nothing, across page    *)
(* boundaries and after resets.                                            *)
Log == INSTANCE AppendLog WITH log <- LogOf(idx)
ImplementsAppendLog == Log!Spec
=============================================================================
