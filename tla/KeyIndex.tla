------------------------------ MODULE KeyIndex ------------------------------
(***************************************************************************)
(* The key index of crates/soroban-migrate/src/index.rs: per schema        *)
(* version, an append-only log of storage keys kept in fixed-size pages    *)
(* behind a summary.  The executor walks one version's index and appends   *)
(* to the next one's; a rollback discards an index and rebuilds it.        *)
(*                                                                         *)
(* This module is the index as a VALUE: the summary (KeyIndexInfo) and the *)
(* pages of one version, and the functions of index.rs as operators on it. *)
(* A page that was never written reads as the empty sequence, which is     *)
(* what read_page returns for it.  A summary that is absent and a summary  *)
(* with len = 0 are the same value: register never writes one with len 0.  *)
(***************************************************************************)
EXTENDS Integers, Sequences

CONSTANTS
  Keys,      \* the storage keys an application registers
  PageSize,  \* index::PAGE_SIZE (32 in the code)
  MaxLen     \* the ceiling of the u32 counter `len`, small for TLC

ASSUME KeyIndexAssumption ==
  /\ PageSize \in Nat \ {0}
  /\ MaxLen \in Nat

Least(a, b) == IF a <= b THEN a ELSE b
Greatest(a, b) == IF a >= b THEN a ELSE b

(* The keys of a sequence. *)
KeysOf(ks) == {ks[i] : i \in DOMAIN ks}

Pages == 0 .. (MaxLen \div PageSize)

Index == [len : 0 .. MaxLen, page_count : Nat, pages : [Pages -> Seq(Keys)]]

EmptyIndex == [len |-> 0, page_count |-> 0, pages |-> [p \in Pages |-> << >>]]

-----------------------------------------------------------------------------
(***************************************************************************)
(* Mutants of the operators below: what a plausible slip in index.rs would *)
(* make of them.  Only the mutation runs use them.                         *)
(***************************************************************************)

\* Rolls over to the next page one registration too early.
Register_EarlyRollover(idx, k) ==
  LET page == (idx.len + 1) \div PageSize
  IN  [len        |-> idx.len + 1,
       page_count |-> Greatest(idx.page_count, page + 1),
       pages      |-> [idx.pages EXCEPT ![page] = Append(@, k)]]

\* A fresh page is pushed to the front instead of the back.
Register_PushFront(idx, k) ==
  LET page == idx.len \div PageSize
  IN  [len        |-> idx.len + 1,
       page_count |-> Greatest(idx.page_count, page + 1),
       pages      |-> [idx.pages EXCEPT ![page] = << k >> \o @]]

\* `page_index + 1 > page_count` written without the + 1.
Register_PageCountOffByOne(idx, k) ==
  LET page == idx.len \div PageSize
  IN  [len        |-> idx.len + 1,
       page_count |-> Greatest(idx.page_count, page),
       pages      |-> [idx.pages EXCEPT ![page] = Append(@, k)]]

\* A window ends where its first page ends.
RangeLen_OnePage(idx, start, limit) ==
  IF start >= idx.len THEN 0
  ELSE Least(PageSize - (start % PageSize), Least(limit, idx.len - start))

\* The scan leaves out the page that is still filling.
ContainsKey_FullPagesOnly(idx, k) ==
  \E p \in Pages : (p + 1) * PageSize <= idx.len /\ k \in KeysOf(idx.pages[p])

-----------------------------------------------------------------------------
(***************************************************************************)
(* register: push the key onto the page that slot `len` belongs to,        *)
(* whatever that page already holds, then count it.                        *)
(***************************************************************************)
Register(idx, k) ==
  LET page == idx.len \div PageSize
  IN  [len        |-> idx.len + 1,
       page_count |-> Greatest(idx.page_count, page + 1),
       pages      |-> [idx.pages EXCEPT ![page] = Append(@, k)]]

(* The first position of a page. *)
FirstSlot(p) == p * PageSize

(***************************************************************************)
(* The keys of ks that fall on page p when ks is registered one key after  *)
(* the other starting at slot `first`.                                     *)
(***************************************************************************)
Share(ks, first, p) ==
  SubSeq(ks, Greatest(1, FirstSlot(p) - first + 1),
             Least(Len(ks), FirstSlot(p) + PageSize - first))

(***************************************************************************)
(* The register calls of one batch: registering every key of ks in order.  *)
(* A closed form, because the batch loop is one transaction;               *)
(* IndexLoops!RegisterAllIsARegisterLoop compares it with the loop.        *)
(***************************************************************************)
RegisterAll(idx, ks) ==
  [len        |-> idx.len + Len(ks),
   page_count |-> IF ks = << >> THEN idx.page_count
                  ELSE Greatest(idx.page_count,
                                (idx.len + Len(ks) - 1) \div PageSize + 1),
   pages      |-> [p \in Pages |-> idx.pages[p] \o Share(ks, idx.len, p)]]

(* get, and whether the page holds a key there (CorruptIndex otherwise). *)
Get(idx, i) == idx.pages[i \div PageSize][(i % PageSize) + 1]
Holds(idx, i) == i % PageSize < Len(idx.pages[i \div PageSize])

(* The number of positions a range(start, limit) call reads. *)
RangeLen(idx, start, limit) ==
  IF start >= idx.len THEN 0 ELSE Least(limit, idx.len - start)

(* range does not fail with CorruptIndex. *)
RangeReadable(idx, start, limit) ==
  \A i \in start .. (start + RangeLen(idx, start, limit) - 1) : Holds(idx, i)

(* range: the keys at positions start, start + 1, ... *)
RangeOf(idx, start, limit) ==
  [i \in 1 .. RangeLen(idx, start, limit) |-> Get(idx, start + i - 1)]

(* contains: scans whole pages, so it also sees what lies beyond `len`. *)
ContainsKey(idx, k) ==
  \E p \in Pages : FirstSlot(p) < idx.len /\ k \in KeysOf(idx.pages[p])

(* reset: removes the summary and leaves every page where it is. *)
Reset(idx) == [idx EXCEPT !.len = 0, !.page_count = 0]

(* footprint_entries. *)
FootprintEntries(idx) == IF idx.len = 0 THEN 0 ELSE idx.page_count + 1

-----------------------------------------------------------------------------
(* What a reader of the whole index sees, in order, and as a set. *)
LogOf(idx) == [i \in 1 .. idx.len |-> Get(idx, i - 1)]
Indexed(idx) == {Get(idx, i) : i \in 0 .. (idx.len - 1)}

(* The positions below a cursor, and from it on. *)
KeysBelow(idx, cursor) == {Get(idx, i) : i \in 0 .. (Least(cursor, idx.len) - 1)}
KeysFrom(idx, cursor) == {Get(idx, i) : i \in cursor .. (idx.len - 1)}

(* How many of the first `len` positions fall on page p.                   *)
Fill(len, p) == Greatest(0, Least(PageSize, len - FirstSlot(p)))

(***************************************************************************)
(* Covers: every page holds a key for each position the summary places on  *)
(* it.  Clean: it holds nothing else, which is true of an index that was   *)
(* never reset.                                                            *)
(***************************************************************************)
Covers(idx) == \A p \in Pages : Len(idx.pages[p]) >= Fill(idx.len, p)
Clean(idx) == \A p \in Pages : Len(idx.pages[p]) = Fill(idx.len, p)
=============================================================================
