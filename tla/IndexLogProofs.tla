--------------------------- MODULE IndexLogProofs ---------------------------
(***************************************************************************)
(* Theorems of IndexLog and of the loops in IndexLoops, for every page     *)
(* size, ceiling and set of keys: whatever resets do, no read inside the   *)
(* advertised range is corrupt, the index is a log that grows at its end,  *)
(* and the loops compute their closed forms.                               *)
(***************************************************************************)
EXTENDS IndexLoops, KeyIndexProofs, FiniteSetTheorems, WellFoundedInduction

(* The log of an index that covers its positions is a sequence of keys.    *)
LEMMA LogOfType ==
  ASSUME NEW i \in Index, Covers(i)
  PROVE  /\ LogOf(i) \in Seq(Keys)
         /\ Len(LogOf(i)) = i.len
         /\ \A j \in 1 .. i.len : LogOf(i)[j] = Get(i, j - 1)
<1>1. PICK n \in Nat : n = i.len
  BY KeyIndexAssumption DEF Index
<1>2. \A j \in 1 .. n : Get(i, j - 1) \in Keys
  <2> TAKE j \in 1 .. n
  <2>1. j - 1 \in 0 .. (i.len - 1)
    BY <1>1
  <2> QED
    BY <2>1, CoversHolds
<1>3. LogOf(i) = [j \in 1 .. n |-> Get(i, j - 1)]
  BY <1>1 DEF LogOf
<1>4. LogOf(i) \in Seq(Keys)
  BY <1>2, <1>3, IsASeq
<1> QED
  BY <1>1, <1>3, <1>4

-----------------------------------------------------------------------------
(* With resets.  A reset takes every position away and leaves every page,  *)
(* so the pages may hold more than the summary places on them, never less: *)
(* Covers, not Clean, is what is inductive.                                *)
CoverInv == TypeOK /\ Covers(idx)

(* CoverInv is an invariant of registrations and resets in any order.      *)
LEMMA CoverInvInductive ==
  Spec => []CoverInv
<1>1. Init => CoverInv
  BY EmptyCovers, CleanCovers, EmptySeq DEF Init, CoverInv, TypeOK
<1>2. CoverInv /\ [Next]_vars => CoverInv'
  <2> SUFFICES ASSUME CoverInv, [Next]_vars
               PROVE  CoverInv'
    OBVIOUS
  <2>1. ASSUME NEW k \in Keys, RegisterKey(k)
        PROVE  CoverInv'
    BY <2>1, RegisterCovers, AppendProperties DEF CoverInv, TypeOK, RegisterKey
  <2>2. CASE ResetIndex
    BY <2>2, ResetCovers, EmptySeq DEF CoverInv, TypeOK, ResetIndex
  <2>3. CASE UNCHANGED vars
    BY <2>3 DEF CoverInv, TypeOK, vars
  <2> QED
    BY <2>1, <2>2, <2>3 DEF Next
<1> QED
  BY <1>1, <1>2, PTL DEF Spec

(* The summary and the pages always have the shape the code gives them:    *)
(* the counter never passes its ceiling and no page lies beyond the last   *)
(* one a key can be on.                                                    *)
THEOREM IndexTypeCorrect == Spec => []TypeOK
<1>1. CoverInv => TypeOK
  BY DEF CoverInv
<1> QED
  BY <1>1, CoverInvInductive, PTL

(* index.rs:117-120: get and range never answer CorruptIndex for a         *)
(* position the summary advertises, after any number of resets.            *)
THEOREM ReadsNeverCorrupt == Spec => []NeverCorrupt
<1>1. CoverInv => NeverCorrupt
  BY CoversHolds DEF CoverInv, TypeOK, NeverCorrupt
<1> QED
  BY <1>1, CoverInvInductive, PTL

-----------------------------------------------------------------------------
(* A registration adds one position, the last, to the log.                 *)
LEMMA LogOfRegister ==
  ASSUME NEW i \in Index, NEW k \in Keys, Covers(i), i.len < MaxLen
  PROVE  \E added \in Keys : LogOf(Register(i, k)) = Append(LogOf(i), added)
<1> DEFINE new == Register(i, k)
<1>1. new \in Index /\ Covers(new) /\ new.len = i.len + 1
  BY RegisterCovers
<1>2. \A j \in 0 .. (i.len - 1) : Get(new, j) = Get(i, j)
  BY RegisterCovers
<1> HIDE DEF new
<1>3. PICK n \in Nat : n = i.len
  BY KeyIndexAssumption DEF Index
<1>4. PICK added \in Keys : added = Get(new, n)
  <2>1. n \in 0 .. (new.len - 1)
    BY <1>1, <1>3
  <2> QED
    BY <1>1, <2>1, CoversHolds
<1>5. /\ LogOf(i) \in Seq(Keys) /\ Len(LogOf(i)) = n
      /\ \A j \in 1 .. n : LogOf(i)[j] = Get(i, j - 1)
  BY <1>3, LogOfType
<1>6. /\ LogOf(new) \in Seq(Keys) /\ Len(LogOf(new)) = n + 1
      /\ \A j \in 1 .. n + 1 : LogOf(new)[j] = Get(new, j - 1)
  BY <1>1, <1>3, LogOfType
<1>7. /\ Append(LogOf(i), added) \in Seq(Keys)
      /\ Len(Append(LogOf(i), added)) = n + 1
      /\ \A j \in 1 .. n : Append(LogOf(i), added)[j] = LogOf(i)[j]
      /\ Append(LogOf(i), added)[n + 1] = added
  BY <1>5, AppendProperties
<1>8. \A j \in 1 .. n + 1 : LogOf(new)[j] = Append(LogOf(i), added)[j]
  <2> TAKE j \in 1 .. n + 1
  <2>1. CASE j = n + 1
    BY <1>4, <1>6, <1>7, <2>1
  <2>2. CASE j \in 1 .. n
    <3>1. j - 1 \in 0 .. (i.len - 1)
      BY <1>3, <2>2
    <3> QED
      BY <1>2, <1>5, <1>6, <1>7, <2>2, <3>1
  <2>3. j = n + 1 \/ j \in 1 .. n
    OBVIOUS
  <2> QED
    BY <2>1, <2>2, <2>3
<1>9. LogOf(new) = Append(LogOf(i), added)
  BY <1>6, <1>7, <1>8, SeqEqual
<1> QED
  BY <1>9 DEF new

(* A discarded index reads as the empty log.                               *)
LEMMA LogOfReset ==
  ASSUME NEW i \in Index, i.len = 0
  PROVE  LogOf(i) = << >>
BY DEF LogOf

(* rollback.rs:5-7: for every page size, an index is a log that grows one  *)
(* key at a time at its end and is otherwise only discarded as a whole:    *)
(* what the cursors of both walks rest on.                                 *)
THEOREM IndexIsAnAppendLog == Spec => ImplementsAppendLog
<1>1. Init => Log!Init
  BY EmptyCovers, LogOfReset DEF Init, Log!Init, EmptyIndex
<1>2. CoverInv /\ [Next]_vars => [Log!Next]_(LogOf(idx))
  <2> SUFFICES ASSUME CoverInv, [Next]_vars
               PROVE  [Log!Next]_(LogOf(idx))
    OBVIOUS
  <2>1. ASSUME NEW k \in Keys, RegisterKey(k)
        PROVE  Log!Next
    <3>1. PICK added \in Keys : LogOf(Register(idx, k)) = Append(LogOf(idx), added)
      BY <2>1, LogOfRegister DEF CoverInv, TypeOK, RegisterKey
    <3>2. LogOf(idx)' = Append(LogOf(idx), added)
      BY <2>1, <3>1 DEF RegisterKey, LogOf, Get
    <3> QED
      BY <3>2 DEF Log!Next, Log!Push
  <2>2. CASE ResetIndex
    <3>1. Reset(idx) \in Index /\ Reset(idx).len = 0
      BY ResetCovers DEF CoverInv, TypeOK, Reset, Index
    <3>2. LogOf(idx') = << >>
      BY <2>2, <3>1, LogOfReset DEF ResetIndex
    <3>3. LogOf(idx)' = << >>
      BY <3>2 DEF LogOf, Get
    <3> QED
      BY <3>3 DEF Log!Next, Log!Discard
  <2>3. CASE UNCHANGED vars
    BY <2>3 DEF vars, LogOf, Get
  <2> QED
    BY <2>1, <2>2, <2>3 DEF Next
<1> QED
  BY <1>1, <1>2, CoverInvInductive, PTL DEF Spec, ImplementsAppendLog, Log!Spec

-----------------------------------------------------------------------------
(* What a walk visits is on a page that contains scans.                    *)
LEMMA WalkIsContained ==
  ASSUME NEW i \in Index, Covers(i), NEW k \in Indexed(i)
  PROVE  ContainsKey(i, k)
<1>1. PICK n \in Nat : n = i.len
  BY KeyIndexAssumption DEF Index
<1>2. PICK pos \in 0 .. (n - 1) : k = Get(i, pos)
  BY <1>1 DEF Indexed
<1>3. PICK q \in Nat, r \in 0 .. (PageSize - 1) :
        q = pos \div PageSize /\ r = pos % PageSize
  BY <1>2, PageOf
<1>4. q \in Pages
  <2>1. pos \in 0 .. MaxLen
    BY <1>1, <1>2, KeyIndexAssumption DEF Index
  <2> QED
    BY <1>3, <2>1, PageInRange
<1>5. PICK x \in Nat : x = FirstSlot(q)
  BY FirstSlotType
<1>6. pos = x + r
  BY <1>2, <1>3, <1>5, SlotOnPage
<1>7. x < n
  BY <1>2, <1>6, KeyIndexAssumption
<1>8. r < Len(i.pages[q])
  BY <1>1, <1>2, <1>3, CoversHolds DEF Holds
<1>9. r + 1 \in DOMAIN i.pages[q]
  BY <1>4, <1>8, LenProperties, KeyIndexAssumption DEF Index
<1>10. k = i.pages[q][r + 1]
  BY <1>2, <1>3 DEF Get
<1> QED
  BY <1>1, <1>4, <1>5, <1>7, <1>9, <1>10 DEF ContainsKey, KeysOf

(* A registration is contained from then on, with what was before.         *)
LEMMA RegisterContains ==
  ASSUME NEW i \in Index, NEW k \in Keys, i.len < MaxLen,
         NEW x \in Keys, x = k \/ ContainsKey(i, x)
  PROVE  ContainsKey(Register(i, k), x)
<1>1. PICK n \in Nat : n = i.len /\ Register(i, k).len = n + 1
  BY RegisterType, KeyIndexAssumption DEF Index
<1>2. PICK page \in Pages : page = i.len \div PageSize
  BY PageInRange DEF Index
<1>3. i.pages \in [Pages -> Seq(Keys)]
  BY DEF Index
<1>4. Register(i, k).pages = [i.pages EXCEPT ![page] = Append(@, k)]
  BY <1>2 DEF Register
<1>5. PICK old \in Seq(Keys) : old = i.pages[page]
  BY <1>3
<1>6. /\ Register(i, k).pages[page] = Append(old, k)
      /\ \A p \in Pages : p # page => Register(i, k).pages[p] = i.pages[p]
  BY <1>3, <1>4, <1>5
<1>7. KeysOf(old) \cup {k} \subseteq KeysOf(Append(old, k))
  <2>1. Len(old) \in Nat /\ DOMAIN old = 1 .. Len(old)
    BY LenProperties
  <2>2. /\ Append(old, k) \in Seq(Keys) /\ Len(Append(old, k)) = Len(old) + 1
        /\ \A j \in 1 .. Len(old) : Append(old, k)[j] = old[j]
        /\ Append(old, k)[Len(old) + 1] = k
    BY AppendProperties
  <2>3. DOMAIN Append(old, k) = 1 .. Len(old) + 1
    BY <2>2
  <2>4. \A j \in 1 .. Len(old) : j \in 1 .. Len(old) + 1
    BY <2>1
  <2>5. Len(old) + 1 \in 1 .. Len(old) + 1
    BY <2>1
  <2> QED
    BY <2>1, <2>2, <2>3, <2>4, <2>5 DEF KeysOf
<1>8. FirstSlot(page) < n + 1
  <2>1. PICK r \in 0 .. (PageSize - 1), y \in Nat : y = FirstSlot(page) /\ n = y + r
    BY <1>1, <1>2, SlotOnPage, PageOf, FirstSlotType
  <2> QED
    BY <2>1, KeyIndexAssumption
<1>9. CASE x = k
  BY <1>1, <1>6, <1>7, <1>8, <1>9 DEF ContainsKey
<1>10. CASE ContainsKey(i, x)
  <2>1. PICK p \in Pages : FirstSlot(p) < n /\ x \in KeysOf(i.pages[p])
    BY <1>1, <1>10 DEF ContainsKey
  <2>2. FirstSlot(p) \in Nat
    BY FirstSlotType DEF Pages
  <2>3. FirstSlot(p) < n + 1
    BY <2>1, <2>2
  <2>4. x \in KeysOf(Register(i, k).pages[p])
    BY <1>5, <1>6, <1>7, <2>1
  <2> QED
    BY <1>1, <2>3, <2>4 DEF ContainsKey
<1> QED
  BY <1>9, <1>10

(* What was registered since the last reset is contained: inductive.       *)
ContainInv == CoverInv /\ \A k \in KeysOf(pushed) : ContainsKey(idx, k)

(* ContainInv is an invariant of registrations and resets in any order.    *)
LEMMA ContainInvInductive ==
  Spec => []ContainInv
<1>1. Init => \A k \in KeysOf(pushed) : ContainsKey(idx, k)
  <2>1. KeysOf(<< >>) = {}
    BY EmptySeq DEF KeysOf
  <2> QED
    BY <2>1 DEF Init
<1>2. ContainInv /\ [Next]_vars => (\A k \in KeysOf(pushed) : ContainsKey(idx, k))'
  <2> SUFFICES ASSUME ContainInv, [Next]_vars, NEW x \in KeysOf(pushed')
               PROVE  ContainsKey(idx', x)
    BY DEF KeysOf, ContainsKey
  <2>1. ASSUME NEW k \in Keys, RegisterKey(k)
        PROVE  ContainsKey(idx', x)
    <3>1. /\ idx \in Index /\ idx.len < MaxLen /\ idx' = Register(idx, k)
          /\ pushed \in Seq(Keys) /\ pushed' = Append(pushed, k)
      BY <2>1 DEF ContainInv, CoverInv, TypeOK, RegisterKey
    <3>2. x \in Keys /\ (x = k \/ x \in KeysOf(pushed))
      <4>1. Len(pushed) \in Nat /\ DOMAIN pushed = 1 .. Len(pushed)
        BY <3>1, LenProperties
      <4>2. /\ pushed' \in Seq(Keys) /\ Len(pushed') = Len(pushed) + 1
            /\ \A j \in 1 .. Len(pushed) : pushed'[j] = pushed[j]
            /\ pushed'[Len(pushed) + 1] = k
        BY <3>1, AppendProperties
      <4>3. PICK j \in DOMAIN pushed' : x = pushed'[j]
        BY DEF KeysOf
      <4>4. j \in 1 .. Len(pushed) + 1 /\ x \in Keys
        BY <4>2, <4>3
      <4>5. j = Len(pushed) + 1 \/ j \in 1 .. Len(pushed)
        BY <4>1, <4>4
      <4> QED
        BY <4>1, <4>2, <4>3, <4>4, <4>5 DEF KeysOf
    <3> QED
      BY <3>1, <3>2, RegisterContains DEF ContainInv
  <2>2. CASE ResetIndex
    <3>1. pushed' = << >>
      BY <2>2 DEF ResetIndex
    <3> QED
      BY <3>1, EmptySeq DEF KeysOf
  <2>3. CASE UNCHANGED vars
    BY <2>3 DEF vars, ContainInv
  <2> QED
    BY <2>1, <2>2, <2>3 DEF Next
<1> QED
  BY <1>1, <1>2, CoverInvInductive, PTL DEF Spec, ContainInv

(* preflight.rs:149-154: the orphan check never misses a key that a walk   *)
(* visits or that was registered since the last reset, and on pages no     *)
(* reset has left keys on it finds exactly what a walk visits.             *)
THEOREM ContainsIsSound == Spec => []ContainsFindsRegisteredKeys
<1>1. ContainInv => ContainsFindsRegisteredKeys
  <2> SUFFICES ASSUME ContainInv
               PROVE  ContainsFindsRegisteredKeys
    OBVIOUS
  <2>1. idx \in Index /\ Covers(idx) /\ pushed \in Seq(Keys)
    BY DEF ContainInv, CoverInv, TypeOK
  <2>2. Indexed(idx) \subseteq Keys
    BY <2>1, CoversHolds DEF Indexed
  <2>3. KeysOf(pushed) \subseteq Keys
    BY <2>1 DEF KeysOf
  <2>4. \A k \in Indexed(idx) \cup KeysOf(pushed) : ContainsKey(idx, k)
    BY <2>1, WalkIsContained DEF ContainInv
  <2>5. Clean(idx) => \A k \in Keys : ContainsKey(idx, k) <=> k \in Indexed(idx)
    BY <2>1, CleanContains
  <2> QED
    BY <2>2, <2>3, <2>4, <2>5 DEF ContainsFindsRegisteredKeys
<1> QED
  BY <1>1, ContainInvInductive, PTL

-----------------------------------------------------------------------------
(***************************************************************************)
(* The footprint.  page_count is written by register from the slot it      *)
(* fills; what makes it the number of pages is that it is always the page  *)
(* of the last slot, plus one.                                             *)
(***************************************************************************)
PageCountOf(len) == IF len = 0 THEN 0 ELSE (len - 1) \div PageSize + 1

FootprintInv == CoverInv /\ idx.page_count = PageCountOf(idx.len)

(* FootprintInv is an invariant of registrations and resets in any order.  *)
LEMMA FootprintInvInductive ==
  Spec => []FootprintInv
<1>1. Init => idx.page_count = PageCountOf(idx.len)
  BY DEF Init, PageCountOf, EmptyIndex
<1>2. FootprintInv /\ [Next]_vars => (idx.page_count = PageCountOf(idx.len))'
  <2> SUFFICES ASSUME FootprintInv, [Next]_vars
               PROVE  (idx.page_count = PageCountOf(idx.len))'
    OBVIOUS
  <2>1. ASSUME NEW k \in Keys, RegisterKey(k)
        PROVE  (idx.page_count = PageCountOf(idx.len))'
    <3>1. idx \in Index /\ idx' = Register(idx, k) /\ idx.len < MaxLen
      BY <2>1 DEF FootprintInv, CoverInv, TypeOK, RegisterKey
    <3>2. idx' \in Index /\ idx'.len = idx.len + 1
      BY <3>1, RegisterCovers
    <3>3. PICK n \in Nat : n = idx.len
      BY <3>1, KeyIndexAssumption DEF Index
    <3>4. PICK q \in Nat : q = n \div PageSize
      BY PageOf
    <3>5. idx.page_count \in Nat /\ idx.page_count <= q + 1
      <4>1. CASE n = 0
        BY <3>3, <4>1 DEF FootprintInv, PageCountOf
      <4>2. CASE n # 0
        <5>1. n - 1 \in Nat /\ n - 1 <= n
          BY <4>2
        <5>2. (n - 1) \div PageSize \in Nat /\ (n - 1) \div PageSize <= q
          BY <3>4, <5>1, PageOf, PageOfMonotonic
        <5> QED
          BY <3>3, <4>2, <5>2 DEF FootprintInv, PageCountOf
      <4> QED
        BY <4>1, <4>2
    <3>6. idx'.page_count = q + 1
      BY <3>1, <3>3, <3>4, <3>5 DEF Register, Greatest
    <3>7. PageCountOf(n + 1) = q + 1
      BY <3>4 DEF PageCountOf
    <3> QED
      BY <3>2, <3>3, <3>6, <3>7 DEF PageCountOf
  <2>2. CASE ResetIndex
    BY <2>2 DEF FootprintInv, CoverInv, TypeOK, Index, ResetIndex, Reset, PageCountOf
  <2>3. CASE UNCHANGED vars
    BY <2>3 DEF FootprintInv, PageCountOf, vars
  <2> QED
    BY <2>1, <2>2, <2>3 DEF Next
<1> QED
  BY <1>1, <1>2, CoverInvInductive, PTL DEF Spec, FootprintInv

(* The pages that hold a key and that the summary reaches are those up to  *)
(* the page of its last slot.                                              *)
LEMMA PagesInUse ==
  ASSUME NEW i \in Index, Covers(i), i.len # 0
  PROVE  {p \in Pages : i.pages[p] # << >> /\ FirstSlot(p) < i.len}
           = 0 .. (PageCountOf(i.len) - 1)
<1>1. PICK n \in Nat : n = i.len /\ n >= 1 /\ n <= MaxLen
  BY KeyIndexAssumption DEF Index
<1>2. PICK q \in Nat, r \in 0 .. (PageSize - 1) :
        q = (n - 1) \div PageSize /\ r = (n - 1) % PageSize
  BY <1>1, PageOf
<1>3. q \in Pages /\ n - 1 = FirstSlot(q) + r
  BY <1>1, <1>2, PageInRange, SlotOnPage, KeyIndexAssumption
<1>4. ASSUME NEW p \in Pages
      PROVE  (i.pages[p] # << >> /\ FirstSlot(p) < n) <=> p <= q
  <2>1. p \in Nat
    BY DEF Pages
  <2>2. PICK x \in Nat, y \in Nat : x = FirstSlot(p) /\ y = FirstSlot(q)
    BY <2>1, FirstSlotType
  <2>3. x < n => i.pages[p] # << >>
    <3>1. i.pages[p] \in Seq(Keys) /\ Len(i.pages[p]) >= Fill(n, p)
      BY <1>1 DEF Index, Covers
    <3>2. x < n => Fill(n, p) \in Nat \ {0}
      BY <2>2, KeyIndexAssumption DEF Fill, Greatest, Least
    <3> QED
      BY <3>1, <3>2, EmptySeq
  <2>4. p <= q => x <= y
    BY <2>1, <2>2, KeyIndexAssumption DEF FirstSlot
  <2>5. p > q => x >= y + PageSize
    <3>1. p > q => p * PageSize >= q * PageSize + PageSize
      BY <2>1, KeyIndexAssumption
    <3> QED
      BY <2>2, <3>1 DEF FirstSlot
  <2>6. n - 1 = y + r /\ r \in Nat /\ r < PageSize
    BY <1>3, <2>2, KeyIndexAssumption
  <2>7. p <= q => x < n
    BY <1>1, <2>2, <2>4, <2>6
  <2>8. p > q => x >= n
    BY <1>1, <2>2, <2>5, <2>6, KeyIndexAssumption
  <2> QED
    BY <1>2, <2>1, <2>2, <2>3, <2>7, <2>8
<1>5. PageCountOf(i.len) - 1 = q
  BY <1>1, <1>2 DEF PageCountOf
<1>6. 0 .. q \subseteq Pages
  <2>1. PICK z \in Nat : z = MaxLen \div PageSize
    BY PageOf, KeyIndexAssumption
  <2>2. q <= z
    BY <1>3, <2>1 DEF Pages
  <2> QED
    BY <2>1, <2>2 DEF Pages
<1>7. \A p \in Pages : p \in Nat
  BY DEF Pages
<1>8. \A p \in Pages : (i.pages[p] # << >> /\ FirstSlot(p) < n) <=> p \in 0 .. q
  BY <1>2, <1>4, <1>7
<1> QED
  BY <1>1, <1>5, <1>6, <1>8

(* index.rs:223: footprint_entries is the number of pages that hold a key  *)
(* and that the summary reaches, plus one for the summary, after any       *)
(* number of resets.                                                       *)
THEOREM FootprintIsExact == Spec => []FootprintCountsEntries
<1>1. ASSUME FootprintInv, idx.len # 0
      PROVE  idx.page_count =
               Cardinality({p \in Pages : idx.pages[p] # << >> /\ FirstSlot(p) < idx.len})
  <2>1. PICK c \in Nat : c = PageCountOf(idx.len) /\ c = idx.page_count
    BY <1>1 DEF FootprintInv, CoverInv, TypeOK, Index
  <2>2. {p \in Pages : idx.pages[p] # << >> /\ FirstSlot(p) < idx.len} = 0 .. (c - 1)
    BY <1>1, <2>1, PagesInUse DEF FootprintInv, CoverInv, TypeOK
  <2>3. Cardinality(0 .. (c - 1)) = IF 0 > c - 1 THEN 0 ELSE (c - 1) - 0 + 1
    <3>1. 0 \in Int /\ c - 1 \in Int
      OBVIOUS
    <3> QED
      BY <3>1, FS_Interval
  <2>4. Cardinality(0 .. (c - 1)) = c
    BY <2>3
  <2> QED
    BY <2>1, <2>2, <2>4
<1>2. FootprintInv => FootprintCountsEntries
  BY <1>1 DEF FootprintCountsEntries, FootprintEntries
<1> QED
  BY <1>2, FootprintInvInductive, PTL

-----------------------------------------------------------------------------
(* The loops of index.rs and of the executor's batch, which the model      *)
(* replaces by closed forms.                                               *)

(* Two loops that start alike, and go on alike from what is alike, agree   *)
(* after every turn.                                                       *)
LEMMA LoopsAgree ==
  ASSUME NEW last \in Nat, NEW f, NEW g, f[0] = g[0],
         \A n \in Nat : n < last /\ f[n] = g[n] => f[n + 1] = g[n + 1]
  PROVE  f[last] = g[last]
<1> DEFINE wrong == { n \in 0 .. last : f[n] # g[n] }
<1>1. ASSUME wrong # {} PROVE FALSE
  <2>1. wrong \subseteq Nat
    OBVIOUS
  <2>2. \E n \in wrong : \A m \in wrong : ~ (<< m, n >> \in OpToRel(<, Nat))
    <3> HIDE DEF wrong
    <3> QED
      BY <1>1, <2>1, NatLessThanWellFounded, WFMin
  <2>3. PICK n \in wrong : \A m \in wrong : ~ (m < n)
    BY <2>1, <2>2 DEF OpToRel
  <2>4. n \in Nat /\ n # 0 /\ n <= last
    OBVIOUS
  <2>5. n - 1 \in Nat /\ n - 1 < last /\ n - 1 < n /\ (n - 1) + 1 = n
    BY <2>4
  <2>6. f[n - 1] = g[n - 1]
    BY <2>3, <2>5
  <2>7. f[(n - 1) + 1] = g[(n - 1) + 1]
    BY <2>5, <2>6
  <2> QED
    BY <2>5, <2>7
<1> QED
  <2>1. last \in 0 .. last
    OBVIOUS
  <2> QED
    BY <1>1, <2>1

(* One key more of a sequence.                                             *)
LEMMA OneKeyMore ==
  ASSUME NEW ks \in Seq(Keys), NEW n \in Nat, n < Len(ks)
  PROVE  /\ SubSeq(ks, 1, n) \in Seq(Keys) /\ Len(SubSeq(ks, 1, n)) = n
         /\ ks[n + 1] \in Keys
         /\ SubSeq(ks, 1, n + 1) = Append(SubSeq(ks, 1, n), ks[n + 1])
         /\ SubSeq(ks, 1, 0) = << >>
         /\ SubSeq(ks, 1, Len(ks)) = ks
<1>1. Len(ks) \in Nat /\ n + 1 \in 1 .. Len(ks) /\ n \in 0 .. Len(ks)
  BY LenProperties
<1> QED
  BY <1>1

(* Registering key by key is RegisterAll.                                  *)
LEMMA RegisterLoopIs ==
  ASSUME NEW i \in Index, NEW ks \in Seq(Keys), i.len + Len(ks) <= MaxLen
  PROVE  RegisterLoop(i, ks) = RegisterAll(i, ks)
<1> DEFINE Solves(f) == f = [n \in 0 .. Len(ks) |->
                               IF n = 0 THEN i ELSE Register(f[n - 1], ks[n])]
           closed == [n \in 0 .. Len(ks) |-> RegisterAll(i, SubSeq(ks, 1, n))]
           after == CHOOSE f : Solves(f)
<1>1. PICK l \in Nat : l = Len(ks)
  BY LenProperties
<1>2. i.len \in Nat
  BY KeyIndexAssumption DEF Index
<1>3. closed[0] = i
  <2>1. 0 \in 0 .. Len(ks)
    BY <1>1
  <2>2. SubSeq(ks, 1, 0) = << >>
    OBVIOUS
  <2>3. RegisterAll(i, << >>) = i
    BY RegisterAllOfNone
  <2> QED
    BY <2>1, <2>2, <2>3
<1>4. ASSUME NEW n \in Nat, n < l
      PROVE  closed[n + 1] = Register(closed[n], ks[n + 1])
  <2>1. n \in 0 .. Len(ks) /\ n + 1 \in 0 .. Len(ks)
    BY <1>1, <1>4
  <2>2. /\ SubSeq(ks, 1, n) \in Seq(Keys) /\ Len(SubSeq(ks, 1, n)) = n
        /\ ks[n + 1] \in Keys
        /\ SubSeq(ks, 1, n + 1) = Append(SubSeq(ks, 1, n), ks[n + 1])
    BY <1>1, <1>4, OneKeyMore
  <2>3. i.len + n < MaxLen
    BY <1>1, <1>2, <1>4, KeyIndexAssumption
  <2>4. RegisterAll(i, Append(SubSeq(ks, 1, n), ks[n + 1]))
          = Register(RegisterAll(i, SubSeq(ks, 1, n)), ks[n + 1])
    BY <2>2, <2>3, RegisterOneMore
  <2> QED
    BY <2>1, <2>2, <2>4
<1>5. Solves(closed)
  <2>1. ASSUME NEW n \in 0 .. Len(ks)
        PROVE  closed[n] = IF n = 0 THEN i ELSE Register(closed[n - 1], ks[n])
    <3>1. CASE n = 0
      BY <1>3, <3>1
    <3>2. CASE n # 0
      <4>1. n - 1 \in Nat /\ n - 1 < l /\ (n - 1) + 1 = n
        BY <1>1, <3>2
      <4> HIDE DEF closed
      <4> QED
        BY <1>4, <3>2, <4>1
    <3> QED
      BY <3>1, <3>2
  <2>2. closed = [n \in 0 .. Len(ks) |-> closed[n]]
    OBVIOUS
  <2> HIDE DEF closed
  <2> QED
    BY <2>1, <2>2
<1>6. Solves(after)
  <2> HIDE DEF Solves, closed
  <2> QED
    BY <1>5
<1>7. RegisterLoop(i, ks) = after[Len(ks)]
  BY DEF RegisterLoop
<1> HIDE DEF after, closed
<1>8. /\ after[0] = i
      /\ \A n \in Nat : n < l => after[n + 1] = Register(after[n], ks[n + 1])
  <2>1. ASSUME NEW n \in 0 .. Len(ks)
        PROVE  after[n] = IF n = 0 THEN i ELSE Register(after[n - 1], ks[n])
    BY <1>6
  <2> HIDE DEF Solves
  <2>2. 0 \in 0 .. Len(ks)
    BY <1>1
  <2>3. \A n \in Nat : n < l => n + 1 \in 0 .. Len(ks) /\ n + 1 # 0 /\ (n + 1) - 1 = n
    BY <1>1
  <2> QED
    BY <2>1, <2>2, <2>3
<1>9. after[l] = closed[l]
  <2>1. PICK f, g : f = after /\ g = closed
    OBVIOUS
  <2>2. f[0] = g[0]
    BY <1>3, <1>8, <2>1
  <2>3. \A n \in Nat : n < l /\ f[n] = g[n] => f[n + 1] = g[n + 1]
    BY <1>4, <1>8, <2>1
  <2>4. f[l] = g[l]
    BY <2>2, <2>3, LoopsAgree
  <2> QED
    BY <2>1, <2>4
<1>10. closed[l] = RegisterAll(i, ks)
  <2>1. l \in 0 .. Len(ks) /\ SubSeq(ks, 1, l) = ks
    BY <1>1
  <2> QED
    BY <2>1 DEF closed
<1> QED
  BY <1>1, <1>7, <1>9, <1>10

(* A page starts where the one before ends, and not before.                *)
LEMMA FirstSlotGrows ==
  ASSUME NEW p \in Nat, NEW q \in Nat, p + 1 <= q
  PROVE  /\ FirstSlot(p) + PageSize <= FirstSlot(q)
         /\ q = p + 1 => FirstSlot(p) + PageSize = FirstSlot(q)
<1>1. (p + 1) * PageSize = p * PageSize + PageSize
  BY KeyIndexAssumption
<1>2. (p + 1) * PageSize <= q * PageSize
  BY KeyIndexAssumption
<1> QED
  BY <1>1, <1>2 DEF FirstSlot

(* The part of a window that is on page p: where it starts and ends.       *)
PartFrom(start, p) == Greatest(start, FirstSlot(p))
PartTo(end, p) == Least(end, FirstSlot(p) + PageSize)

(* What range reads from a page.                                           *)
PartRead(i, start, end, p) ==
  SubSeq(i.pages[p],
         IF p = start \div PageSize THEN (start % PageSize) + 1 ELSE 1,
         IF p = (end - 1) \div PageSize THEN ((end - 1) % PageSize) + 1 ELSE PageSize)

(* It is the window's part on it.                                          *)
LEMMA PartOfPage ==
  ASSUME NEW i \in Index, Covers(i), NEW start \in Nat, NEW end \in Nat,
         start < end, end <= i.len,
         NEW p \in (start \div PageSize) .. ((end - 1) \div PageSize)
  PROVE  /\ p \in Nat
         /\ PartFrom(start, p) \in Nat /\ PartTo(end, p) \in Nat
         /\ start <= PartFrom(start, p) /\ PartFrom(start, p) < PartTo(end, p)
         /\ PartTo(end, p) <= end
         /\ PartRead(i, start, end, p) \in Seq(Keys)
         /\ Len(PartRead(i, start, end, p)) = PartTo(end, p) - PartFrom(start, p)
         /\ \A j \in 1 .. Len(PartRead(i, start, end, p)) :
              PartRead(i, start, end, p)[j] = Get(i, PartFrom(start, p) + j - 1)
<1>1. PICK first \in Nat, r \in 0 .. (PageSize - 1) :
        /\ first = start \div PageSize /\ r = start % PageSize
        /\ start = FirstSlot(first) + r
  BY PageOf, SlotOnPage
<1>2. end - 1 \in Nat
  OBVIOUS
<1>3. PICK last \in Nat, t \in 0 .. (PageSize - 1) :
        /\ last = (end - 1) \div PageSize /\ t = (end - 1) % PageSize
        /\ end - 1 = FirstSlot(last) + t
  BY <1>2, PageOf, SlotOnPage
<1>4. p \in Nat /\ first <= p /\ p <= last
  BY <1>1, <1>3
<1>5. PICK x \in Nat : x = FirstSlot(p)
  BY <1>4, FirstSlotType
<1>6. p = first => x + r = start
  BY <1>1, <1>5
<1>7. p # first => x >= start /\ FirstSlot(first) + PageSize <= x
  <2>1. p # first => first + 1 <= p /\ first + 1 \in Nat
    BY <1>1, <1>4
  <2>2. p # first => FirstSlot(first) + PageSize <= x
    BY <1>1, <1>4, <1>5, <2>1, FirstSlotGrows
  <2>3. FirstSlot(first) \in Nat
    BY <1>1, FirstSlotType
  <2> QED
    BY <1>1, <1>5, <2>2, <2>3, KeyIndexAssumption
<1>8. p = last => x + t + 1 = end
  BY <1>3, <1>5
<1>9. p # last => x + PageSize < end
  <2>1. p # last => p + 1 <= last
    BY <1>3, <1>4
  <2>2. p # last => x + PageSize <= FirstSlot(last)
    BY <1>3, <1>4, <1>5, <2>1, FirstSlotGrows
  <2>3. FirstSlot(last) \in Nat
    BY <1>3, FirstSlotType
  <2> QED
    BY <1>3, <1>5, <2>2, <2>3, KeyIndexAssumption
<1>10. PICK lo \in Nat, hi \in Nat :
         /\ lo = IF p = first THEN r + 1 ELSE 1
         /\ hi = IF p = last THEN t + 1 ELSE PageSize
  BY KeyIndexAssumption
<1>11. /\ PartFrom(start, p) = x + lo - 1 /\ start <= x + lo - 1
       /\ 1 <= lo /\ lo <= PageSize
       /\ p = first => lo = r + 1
  <2>1. PartFrom(start, p) = IF start >= x THEN start ELSE x
    BY <1>5 DEF PartFrom, Greatest
  <2>2. CASE p = first
    BY <1>6, <1>10, <2>1, <2>2, KeyIndexAssumption
  <2>3. CASE p # first
    BY <1>7, <1>10, <2>1, <2>3, KeyIndexAssumption
  <2> QED
    BY <2>2, <2>3
<1>12. /\ PartTo(end, p) = x + hi /\ x + hi <= end
       /\ 1 <= hi /\ hi <= PageSize
       /\ p # last => hi = PageSize
  <2>1. PartTo(end, p) = IF end <= x + PageSize THEN end ELSE x + PageSize
    BY <1>5 DEF PartTo, Least
  <2>2. CASE p = last
    BY <1>8, <1>10, <2>1, <2>2, KeyIndexAssumption
  <2>3. CASE p # last
    BY <1>9, <1>10, <2>1, <2>3, KeyIndexAssumption
  <2> QED
    BY <2>2, <2>3
<1>13. lo <= hi
  <2>1. CASE p = last
    BY <1>6, <1>7, <1>8, <1>10, <2>1, KeyIndexAssumption
  <2>2. CASE p # last
    BY <1>11, <1>12, <2>2, KeyIndexAssumption
  <2> QED
    BY <2>1, <2>2
<1>14. PICK s : s = PartRead(i, start, end, p) /\ s = SubSeq(i.pages[p], lo, hi)
  BY <1>1, <1>3, <1>10 DEF PartRead
<1>15. i.pages[p] \in Seq(Keys) /\ hi <= Len(i.pages[p])
  <2>1. end - 1 \in 0 .. MaxLen /\ i.len \in Nat
    BY KeyIndexAssumption DEF Index
  <2>2. last \in Pages
    BY <1>3, <2>1, PageInRange
  <2>3. p \in Pages
    <3>1. PICK top \in Nat : top = MaxLen \div PageSize
      BY PageOf, KeyIndexAssumption
    <3> QED
      BY <1>4, <2>2, <3>1 DEF Pages
  <2>4. Len(i.pages[p]) >= Fill(i.len, p)
    BY <2>3 DEF Covers
  <2>5. i.pages[p] \in Seq(Keys) /\ Len(i.pages[p]) \in Nat
    BY <2>3, LenProperties DEF Index
  <2>6. Fill(i.len, p) >= hi
    BY <1>5, <1>12, <2>1, KeyIndexAssumption DEF Fill, Greatest, Least
  <2>7. Fill(i.len, p) \in Nat
    BY <1>4, <2>1, FillType
  <2> QED
    BY <2>4, <2>5, <2>6, <2>7
<1>16. /\ s \in Seq(Keys) /\ Len(s) = hi - lo + 1
       /\ \A j \in 1 .. hi - lo + 1 : s[j] = i.pages[p][lo + j - 1]
  <2>1. PICK page \in Seq(Keys) : page = i.pages[p] /\ hi <= Len(page)
    BY <1>15
  <2>2. s = SubSeq(page, lo, hi) /\ lo \in 1 .. hi + 1 /\ hi \in lo - 1 .. Len(page)
    BY <1>11, <1>12, <1>13, <1>14, <2>1
  <2>3. Len(page) \in Nat
    BY LenProperties
  <2> QED
    BY <1>11, <1>13, <2>1, <2>2, <2>3, SubSeqProperties
<1>17. ASSUME NEW j \in 1 .. hi - lo + 1
       PROVE  Get(i, x + lo - 1 + j - 1) = i.pages[p][lo + j - 1]
  <2>1. PICK o \in Nat : o = lo + j - 2 /\ o < PageSize
    BY <1>11, <1>12, KeyIndexAssumption
  <2>2. x + lo - 1 + j - 1 = FirstSlot(p) + o /\ lo + j - 1 = o + 1
    BY <1>5, <2>1
  <2>3. (FirstSlot(p) + o) \div PageSize = p /\ (FirstSlot(p) + o) % PageSize = o
    BY <1>4, <2>1, PositionOf
  <2> QED
    BY <2>2, <2>3 DEF Get
<1>18. Len(s) = PartTo(end, p) - PartFrom(start, p)
  <2>1. (x + hi) - (x + lo - 1) = hi - lo + 1
    OBVIOUS
  <2> QED
    BY <1>11, <1>12, <1>16, <2>1
<1>19. \A j \in 1 .. Len(s) : s[j] = Get(i, PartFrom(start, p) + j - 1)
  BY <1>11, <1>16, <1>17
<1>20. /\ x + lo - 1 \in Nat /\ x + hi \in Nat /\ x + lo - 1 < x + hi
  BY <1>11, <1>12, <1>13
<1> QED
  BY <1>4, <1>11, <1>12, <1>14, <1>16, <1>18, <1>19, <1>20

(* The keys at the positions from a up to b.                               *)
Positions(i, a, b) == [j \in 1 .. (b - a) |-> Get(i, a + j - 1)]

(* They are a sequence of keys.                                            *)
LEMMA PositionsType ==
  ASSUME NEW i \in Index, Covers(i), NEW a \in Nat, NEW b \in Nat,
         a <= b, b <= i.len
  PROVE  /\ Positions(i, a, b) \in Seq(Keys)
         /\ Len(Positions(i, a, b)) = b - a
         /\ \A j \in 1 .. (b - a) : Positions(i, a, b)[j] = Get(i, a + j - 1)
<1>1. i.len \in Nat
  BY KeyIndexAssumption DEF Index
<1>2. PICK n \in Nat : n = b - a
  OBVIOUS
<1>3. \A j \in 1 .. n : Get(i, a + j - 1) \in Keys
  <2> TAKE j \in 1 .. n
  <2>1. a + j - 1 \in 0 .. (i.len - 1)
    BY <1>1, <1>2
  <2> QED
    BY <2>1, CoversHolds
<1>4. Positions(i, a, b) = [j \in 1 .. n |-> Get(i, a + j - 1)]
  BY <1>2 DEF Positions
<1>5. Positions(i, a, b) \in Seq(Keys)
  BY <1>3, <1>4, IsASeq
<1> QED
  BY <1>2, <1>4, <1>5

(* The next ones come after them.                                          *)
LEMMA PositionsGoOn ==
  ASSUME NEW i \in Index, Covers(i), NEW a \in Nat, NEW b \in Nat, NEW c \in Nat,
         a <= b, b <= c, c <= i.len,
         NEW s \in Seq(Keys), Len(s) = c - b,
         \A j \in 1 .. Len(s) : s[j] = Get(i, b + j - 1)
  PROVE  Positions(i, a, b) \o s = Positions(i, a, c)
<1>1. i.len \in Nat /\ b <= i.len /\ a <= c
  <2>1. i.len \in Nat
    BY KeyIndexAssumption DEF Index
  <2> QED
    BY <2>1
<1>2. PICK before \in Seq(Keys), all \in Seq(Keys) :
        before = Positions(i, a, b) /\ all = Positions(i, a, c)
  BY <1>1, PositionsType
<1>3. PICK m \in Nat, l \in Nat, n \in Nat :
        m = b - a /\ l = c - b /\ n = c - a /\ n = m + l
  OBVIOUS
<1>4. /\ Len(before) = m /\ \A j \in 1 .. m : before[j] = Get(i, a + j - 1)
      /\ Len(all) = n /\ \A j \in 1 .. n : all[j] = Get(i, a + j - 1)
  <2>1. /\ Len(Positions(i, a, b)) = b - a
        /\ \A j \in 1 .. (b - a) : Positions(i, a, b)[j] = Get(i, a + j - 1)
    BY <1>1, PositionsType
  <2>2. /\ Len(Positions(i, a, c)) = c - a
        /\ \A j \in 1 .. (c - a) : Positions(i, a, c)[j] = Get(i, a + j - 1)
    BY <1>1, PositionsType
  <2> QED
    BY <1>2, <1>3, <2>1, <2>2
<1>5. Len(s) = l /\ \A j \in 1 .. l : s[j] = Get(i, b + j - 1)
  BY <1>3
<1>6. before \o s \in Seq(Keys) /\ Len(before \o s) = n
  <2>1. before \o s \in Seq(Keys) /\ Len(before \o s) = Len(before) + Len(s)
    BY ConcatProperties
  <2> QED
    BY <1>3, <1>4, <1>5, <2>1
<1>7. ASSUME NEW j \in 1 .. n
      PROVE  (before \o s)[j] = all[j]
  <2>1. PICK o \in Nat : o + 1 = j
    OBVIOUS
  <2>2. CASE o < m
    <3>1. (before \o s)[o + 1] = before[o + 1]
      BY <1>4, <2>2, ConcatReadsLeft
    <3>2. j \in 1 .. m
      BY <2>1, <2>2
    <3> QED
      BY <1>4, <2>1, <3>1, <3>2
  <2>3. CASE ~(o < m)
    <3>1. PICK k \in 1 .. l : o + 1 = m + k
      BY <1>3, <2>1, <2>3
    <3>2. (before \o s)[o + 1] = s[k]
      <4>1. k \in 1 .. Len(s) /\ o + 1 = Len(before) + k
        BY <1>4, <1>5, <3>1
      <4> QED
        BY <4>1, ConcatReadsRight
    <3>3. b + k - 1 = a + j - 1
      BY <1>3, <2>1, <3>1
    <3> QED
      BY <1>4, <1>5, <2>1, <3>1, <3>2, <3>3
  <2> QED
    BY <2>2, <2>3
<1>8. before \o s = all
  BY <1>4, <1>6, <1>7, SeqEqual
<1> QED
  BY <1>2, <1>8

(* Page by page or position by position, range reads the same.             *)
LEMMA PageWalkIs ==
  ASSUME NEW i \in Index, Covers(i), NEW start \in Nat, NEW limit \in Nat
  PROVE  PageWalk(i, start, limit) = RangeOf(i, start, limit)
<1>1. PICK len \in Nat : len = i.len
  BY KeyIndexAssumption DEF Index
<1>2. CASE limit = 0 \/ start >= i.len
  <2>1. RangeLen(i, start, limit) = 0
    BY <1>1, <1>2 DEF RangeLen, Least
  <2>2. RangeOf(i, start, limit) = << >>
    BY <2>1 DEF RangeOf
  <2>3. PageWalk(i, start, limit) = << >>
    BY <1>2 DEF PageWalk
  <2> QED
    BY <2>2, <2>3
<1>3. CASE ~(limit = 0 \/ start >= i.len)
  <2>1. PICK end \in Nat : end = Least(start + limit, i.len) /\ start < end /\ end <= i.len
    BY <1>1, <1>3 DEF Least
  <2>2. RangeOf(i, start, limit) = Positions(i, start, end)
    <3>1. RangeLen(i, start, limit) = end - start
      BY <1>1, <1>3, <2>1 DEF RangeLen, Least
    <3> QED
      BY <3>1 DEF RangeOf, Positions
  <2>3. PICK first \in Nat, last \in Nat :
          first = start \div PageSize /\ last = (end - 1) \div PageSize /\ first <= last
    <3>1. end - 1 \in Nat /\ start <= end - 1
      BY <2>1
    <3> QED
      BY <3>1, PageOf, PageOfMonotonic
  <2> DEFINE Slice(p) ==
               SubSeq(i.pages[p],
                      IF p = first THEN (start % PageSize) + 1 ELSE 1,
                      IF p = last THEN ((end - 1) % PageSize) + 1 ELSE PageSize)
             Solves(f) == f = [n \in 0 .. (last - first + 1) |->
                                 IF n = 0 THEN << >> ELSE f[n - 1] \o Slice(first + n - 1)]
             Reached(n) == IF n = 0 THEN start ELSE PartTo(end, first + n - 1)
             closed == [n \in 0 .. (last - first + 1) |-> Positions(i, start, Reached(n))]
             out == CHOOSE f : Solves(f)
  <2>4. PageWalk(i, start, limit) = out[last - first + 1]
    BY <1>3, <2>1, <2>3 DEF PageWalk
  <2>5. PICK turns \in Nat : turns = last - first + 1 /\ turns # 0
    BY <2>3
  <2>6. closed[0] = << >>
    <3>1. 0 \in 0 .. (last - first + 1)
      BY <2>5
    <3>2. closed[0] = Positions(i, start, start)
      BY <3>1
    <3>3. 1 .. (start - start) = {}
      OBVIOUS
    <3> QED
      BY <3>2, <3>3 DEF Positions
  <2>7. ASSUME NEW n \in Nat, n < turns
        PROVE  closed[n + 1] = closed[n] \o Slice(first + n)
    <3> DEFINE p == first + n
               s == Slice(p)
    <3>1. p \in first .. last /\ n \in 0 .. (last - first + 1) /\ n + 1 \in 0 .. (last - first + 1)
      BY <2>3, <2>5, <2>7
    <3>2. /\ p \in Nat
          /\ PartFrom(start, p) \in Nat /\ PartTo(end, p) \in Nat
          /\ start <= PartFrom(start, p) /\ PartFrom(start, p) < PartTo(end, p)
          /\ PartTo(end, p) <= end
          /\ s \in Seq(Keys)
          /\ Len(s) = PartTo(end, p) - PartFrom(start, p)
          /\ \A j \in 1 .. Len(s) : s[j] = Get(i, PartFrom(start, p) + j - 1)
      <4>1. p \in (start \div PageSize) .. ((end - 1) \div PageSize)
        BY <2>3, <3>1
      <4>2. s = PartRead(i, start, end, p)
        BY <2>3 DEF PartRead
      <4> HIDE DEF p, s
      <4> QED
        BY <2>1, <4>1, <4>2, PartOfPage
    <3>3. Reached(n) = PartFrom(start, p)
      <4>1. CASE n = 0
        <5>1. p = first /\ FirstSlot(first) \in Nat /\ FirstSlot(first) <= start
          <6>1. start = FirstSlot(first) + (start % PageSize) /\ start % PageSize \in Nat
            BY <2>3, SlotOnPage, PageOf, KeyIndexAssumption
          <6>2. FirstSlot(first) \in Nat
            BY FirstSlotType
          <6> QED
            BY <4>1, <6>1, <6>2
        <5> QED
          BY <4>1, <5>1 DEF PartFrom, Greatest
      <4>2. CASE n # 0
        <5>1. PICK before \in Nat : before = p - 1 /\ before + 1 = p /\ before = first + n - 1
          BY <3>2, <4>2
        <5>2. before \in first .. last
          BY <2>3, <3>1, <4>2, <5>1
        <5>3. PICK x \in Nat : x = FirstSlot(p) /\ x = FirstSlot(before) + PageSize
          BY <3>2, <5>1, FirstSlotGrows, FirstSlotType
        <5>4. PartTo(end, before) = Least(end, x) /\ PartFrom(start, p) = Greatest(start, x)
          BY <5>3 DEF PartTo, PartFrom
        <5>5. start <= x
          <6>1. PartFrom(start, before) < PartTo(end, before) /\ start <= PartFrom(start, before)
                /\ PartFrom(start, before) \in Nat /\ PartTo(end, before) \in Nat
            <7>1. before \in (start \div PageSize) .. ((end - 1) \div PageSize)
              BY <2>3, <5>2
            <7> QED
              BY <2>1, <7>1, PartOfPage
          <6> QED
            BY <2>1, <5>3, <5>4, <6>1 DEF Least
        <5>6. x < end
          BY <2>1, <3>2, <5>3, <5>4, <5>5 DEF Greatest
        <5> QED
          BY <2>1, <4>2, <5>1, <5>3, <5>4, <5>5, <5>6 DEF Least, Greatest
      <4> QED
        BY <4>1, <4>2
    <3>4. Reached(n + 1) = PartTo(end, p)
      <4>1. n + 1 # 0 /\ first + (n + 1) - 1 = p
        OBVIOUS
      <4> QED
        BY <4>1
    <3> HIDE DEF s, Reached
    <3>5. Positions(i, start, PartFrom(start, p)) \o s = Positions(i, start, PartTo(end, p))
      <4>1. PartFrom(start, p) <= PartTo(end, p) /\ PartTo(end, p) <= i.len
        BY <1>1, <2>1, <3>2
      <4>2. PICK lo \in Nat, hi \in Nat, read \in Seq(Keys) :
              lo = PartFrom(start, p) /\ hi = PartTo(end, p) /\ read = s
        BY <3>2
      <4> HIDE DEF p
      <4>3. /\ start <= lo /\ lo <= hi /\ hi <= i.len /\ Len(read) = hi - lo
            /\ \A j \in 1 .. Len(read) : read[j] = Get(i, lo + j - 1)
        BY <3>2, <4>1, <4>2
      <4>4. Positions(i, start, lo) \o read = Positions(i, start, hi)
        BY <4>3, PositionsGoOn
      <4> QED
        BY <4>2, <4>4
    <3> HIDE DEF p
    <3>6. closed[n] \o s = closed[n + 1]
      BY <3>1, <3>3, <3>4, <3>5
    <3> QED
      BY <3>6 DEF s, p
  <2>8. Solves(closed)
    <3>1. ASSUME NEW n \in 0 .. (last - first + 1)
          PROVE  closed[n] = IF n = 0 THEN << >> ELSE closed[n - 1] \o Slice(first + n - 1)
      <4>1. CASE n = 0
        BY <2>6, <4>1
      <4>2. CASE n # 0
        <5>1. n - 1 \in Nat /\ n - 1 < turns /\ (n - 1) + 1 = n /\ first + (n - 1) = first + n - 1
          BY <2>5, <4>2
        <5> HIDE DEF closed, Slice
        <5> QED
          BY <2>7, <4>2, <5>1
      <4> QED
        BY <4>1, <4>2
    <3>2. closed = [n \in 0 .. (last - first + 1) |-> closed[n]]
      OBVIOUS
    <3> HIDE DEF closed, Slice
    <3> QED
      BY <3>1, <3>2
  <2>9. Solves(out)
    <3> HIDE DEF Solves, closed
    <3> QED
      BY <2>8
  <2> HIDE DEF out, closed, Slice, Reached
  <2>10. /\ out[0] = << >>
         /\ \A n \in Nat : n < turns => out[n + 1] = out[n] \o Slice(first + n)
    <3>1. ASSUME NEW n \in 0 .. (last - first + 1)
          PROVE  out[n] = IF n = 0 THEN << >> ELSE out[n - 1] \o Slice(first + n - 1)
      BY <2>9
    <3> HIDE DEF Solves
    <3>2. 0 \in 0 .. (last - first + 1)
      BY <2>5
    <3>3. \A n \in Nat : n < turns =>
            /\ n + 1 \in 0 .. (last - first + 1) /\ n + 1 # 0
            /\ (n + 1) - 1 = n /\ first + (n + 1) - 1 = first + n
      BY <2>5
    <3> QED
      BY <3>1, <3>2, <3>3
  <2>11. out[turns] = closed[turns]
    <3>1. PICK f, g : f = out /\ g = closed
      OBVIOUS
    <3>2. f[0] = g[0]
      BY <2>6, <2>10, <3>1
    <3>3. \A n \in Nat : n < turns /\ f[n] = g[n] => f[n + 1] = g[n + 1]
      BY <2>7, <2>10, <3>1
    <3>4. f[turns] = g[turns]
      BY <3>2, <3>3, LoopsAgree
    <3> QED
      BY <3>1, <3>4
  <2>12. closed[turns] = Positions(i, start, PartTo(end, last))
    <3>1. turns \in 0 .. (last - first + 1) /\ turns # 0 /\ first + turns - 1 = last
      BY <2>3, <2>5
    <3> QED
      BY <3>1 DEF closed, Reached
  <2>13. PartTo(end, last) = end
    <3>1. PICK x \in Nat, r \in 0 .. (PageSize - 1) : x = FirstSlot(last) /\ end - 1 = x + r
      <4>1. end - 1 \in Nat
        BY <2>1
      <4> QED
        BY <2>3, <4>1, SlotOnPage, PageOf, FirstSlotType
    <3> QED
      BY <2>1, <3>1, KeyIndexAssumption DEF PartTo, Least
  <2> QED
    BY <2>2, <2>4, <2>5, <2>11, <2>12, <2>13
<1> QED
  BY <1>2, <1>3

(* index.rs:137-179: in every state a contract's index can be in, after    *)
(* any registrations and resets, the page walk of range returns the        *)
(* positions asked for.                                                    *)
THEOREM RangeWalks == Spec => []RangeWalksPages
<1>1. CoverInv => RangeWalksPages
  <2> SUFFICES ASSUME CoverInv,
                      NEW start \in 0 .. (MaxLen + 1), NEW limit \in 0 .. (MaxLen + 1)
               PROVE  PageWalk(idx, start, limit) = RangeOf(idx, start, limit)
    BY DEF RangeWalksPages
  <2>1. idx \in Index /\ Covers(idx) /\ start \in Nat /\ limit \in Nat
    BY KeyIndexAssumption DEF CoverInv, TypeOK
  <2> QED
    BY <2>1, PageWalkIs
<1> QED
  BY <1>1, CoverInvInductive, PTL

(* executor.rs:210-228: in every such state a batch's loop of register     *)
(* calls is the single step the executor's model takes for it.             *)
THEOREM RegisterLoops == Spec => []RegisterAllIsARegisterLoop
<1>1. CoverInv => RegisterAllIsARegisterLoop
  <2> SUFFICES ASSUME CoverInv, NEW n \in 0 .. MaxBatchLen, NEW ks \in [1 .. n -> Keys],
                      idx.len + n <= MaxLen
               PROVE  RegisterAll(idx, ks) = RegisterLoop(idx, ks)
    BY DEF RegisterAllIsARegisterLoop
  <2>1. idx \in Index /\ n \in Nat
    BY IndexLoopsAssumption DEF CoverInv, TypeOK
  <2>2. ks \in Seq(Keys) /\ Len(ks) = n
    BY <2>1
  <2> QED
    BY <2>1, <2>2, RegisterLoopIs
<1> QED
  BY <1>1, CoverInvInductive, PTL
=============================================================================
