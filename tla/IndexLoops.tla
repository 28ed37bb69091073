----------------------------- MODULE IndexLoops -----------------------------
(***************************************************************************)
(* The two loops over an index, as the code writes them, against the       *)
(* closed forms the other modules use: range, page by page, and the        *)
(* register calls of a batch, key by key.  They are functions of the state *)
(* IndexLog reaches, with resets and without.                              *)
(***************************************************************************)
EXTENDS IndexLog

CONSTANT MaxBatchLen   \* bound: the longest register loop compared

ASSUME IndexLoopsAssumption == MaxBatchLen \in Nat

-----------------------------------------------------------------------------
(* range as index.rs writes it: page by page, from an offset on the first  *)
(* page to an offset on the last, whole pages in between.                  *)
PageWalk(i, start, limit) ==
  IF limit = 0 \/ start >= i.len THEN << >>
  ELSE LET end   == Least(start + limit, i.len)
           first == start \div PageSize
           last  == (end - 1) \div PageSize
           Slice(p) ==
             SubSeq(i.pages[p],
                    IF p = first THEN (start % PageSize) + 1 ELSE 1,
                    IF p = last THEN ((end - 1) % PageSize) + 1 ELSE PageSize)
           out[n \in 0 .. (last - first + 1)] ==
             IF n = 0 THEN << >> ELSE out[n - 1] \o Slice(first + n - 1)
       IN  out[last - first + 1]

(* The loop of an executor batch, as far as the new version's index goes:  *)
(* one register call for each key, in order.                               *)
RegisterLoop(i, ks) ==
  LET after[n \in 0 .. Len(ks)] ==
        IF n = 0 THEN i ELSE Register(after[n - 1], ks[n])
  IN  after[Len(ks)]

-----------------------------------------------------------------------------
(* index.rs:137-179: walking the pages returns the keys at the positions   *)
(* start, start + 1, ... up to the limit or the end, for every window,     *)
(* the empty ones, those inside a page and those across pages.             *)
RangeWalksPages ==
  \A start \in 0 .. (MaxLen + 1), limit \in 0 .. (MaxLen + 1) :
    PageWalk(idx, start, limit) = RangeOf(idx, start, limit)

(* executor.rs:210-228: registering the keys of a batch one after the      *)
(* other gives the closed form the executor's model uses.                  *)
RegisterAllIsARegisterLoop ==
  \A n \in 0 .. MaxBatchLen : \A ks \in [1 .. n -> Keys] :
    idx.len + n <= MaxLen => RegisterAll(idx, ks) = RegisterLoop(idx, ks)
=============================================================================
