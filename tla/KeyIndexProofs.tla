--------------------------- MODULE KeyIndexProofs ---------------------------
(***************************************************************************)
(* Facts about the operators of KeyIndex, for every page size and every    *)
(* ceiling: which values register, range and the register loop of a batch  *)
(* return, and what they leave alone.                                      *)
(***************************************************************************)
EXTENDS KeyIndex, SequenceTheorems, TLAPS

(* Division by the page size, as the SMT solver needs it spelled out.      *)
LEMMA PageOf ==
  ASSUME NEW i \in Nat
  PROVE  /\ i \div PageSize \in Nat
         /\ i % PageSize \in 0 .. (PageSize - 1)
         /\ i = PageSize * (i \div PageSize) + (i % PageSize)
BY KeyIndexAssumption

(* A later position is on the same page or a later one.                    *)
LEMMA PageOfMonotonic ==
  ASSUME NEW i \in Nat, NEW j \in Nat, i <= j
  PROVE  i \div PageSize <= j \div PageSize
BY KeyIndexAssumption

(* The slot after the last one of a page is the first one of the next.     *)
LEMMA PageOfSuccessor ==
  ASSUME NEW i \in Nat
  PROVE  IF i % PageSize = PageSize - 1
         THEN /\ (i + 1) \div PageSize = i \div PageSize + 1
              /\ (i + 1) % PageSize = 0
         ELSE /\ (i + 1) \div PageSize = i \div PageSize
              /\ (i + 1) % PageSize = (i % PageSize) + 1
BY KeyIndexAssumption

(* Every position up to the ceiling has its page.                          *)
LEMMA PageInRange ==
  ASSUME NEW i \in 0 .. MaxLen
  PROVE  i \div PageSize \in Pages
BY PageOf, PageOfMonotonic, KeyIndexAssumption DEF Pages

(* The index of a version nobody registered under.                         *)
LEMMA EmptyIndexType == EmptyIndex \in Index
BY KeyIndexAssumption, EmptySeq DEF EmptyIndex, Index

(* register below the ceiling returns an index.                            *)
LEMMA RegisterType ==
  ASSUME NEW idx \in Index, NEW k \in Keys, idx.len < MaxLen
  PROVE  /\ Register(idx, k) \in Index
         /\ Register(idx, k).len = idx.len + 1
<1>1. idx.len \div PageSize \in Pages /\ idx.len \div PageSize \in Nat
  BY PageInRange, PageOf DEF Index
<1> DEFINE page == idx.len \div PageSize
<1>2. [idx.pages EXCEPT ![page] = Append(@, k)] \in [Pages -> Seq(Keys)]
  BY <1>1, AppendProperties DEF Index
<1>3. Greatest(idx.page_count, page + 1) \in Nat
  BY <1>1 DEF Greatest, Index
<1> QED
  BY <1>2, <1>3, KeyIndexAssumption DEF Register, Index

(* A position is its offset after the first position of its page.          *)
LEMMA FirstSlotType ==
  ASSUME NEW p \in Nat
  PROVE  FirstSlot(p) \in Nat
BY KeyIndexAssumption DEF FirstSlot

(* The slot of a position is where its page starts, plus its offset.       *)
LEMMA SlotOnPage ==
  ASSUME NEW i \in Nat
  PROVE  i = FirstSlot(i \div PageSize) + (i % PageSize)
BY PageOf, KeyIndexAssumption DEF FirstSlot

(* The first and the last element of ks that fall on page p when ks is     *)
(* registered from slot n on.                                              *)
ShareFrom(n, p) == Greatest(1, FirstSlot(p) - n + 1)
ShareTo(ks, n, p) == Least(Len(ks), FirstSlot(p) + PageSize - n)

(* The share of a page is a sequence of keys, and which ones.              *)
LEMMA ShareProperties ==
  ASSUME NEW ks \in Seq(Keys), NEW n \in Nat, NEW p \in Nat
  PROVE  /\ ShareFrom(n, p) \in Int /\ ShareTo(ks, n, p) \in Int
         /\ Share(ks, n, p) \in Seq(Keys)
         /\ Len(Share(ks, n, p)) = IF ShareFrom(n, p) <= ShareTo(ks, n, p)
                                   THEN ShareTo(ks, n, p) - ShareFrom(n, p) + 1 ELSE 0
         /\ \A i \in 1 .. ShareTo(ks, n, p) - ShareFrom(n, p) + 1 :
              Share(ks, n, p)[i] = ks[ShareFrom(n, p) + i - 1]
<1>1. Len(ks) \in Nat /\ \A i \in 1 .. Len(ks) : ks[i] \in Keys
  BY LenProperties, ElementOfSeq
<1>2. PICK x \in Nat : x = FirstSlot(p)
  BY FirstSlotType
<1>3. PICK lo \in Int, hi \in Int :
        /\ lo = ShareFrom(n, p) /\ hi = ShareTo(ks, n, p)
        /\ 1 <= lo /\ hi <= Len(ks)
  BY <1>1, <1>2, KeyIndexAssumption DEF ShareFrom, ShareTo, Greatest, Least
<1>4. \A i \in lo .. hi : ks[i] \in Keys
  BY <1>1, <1>3
<1>5. Share(ks, n, p) = SubSeq(ks, lo, hi)
  BY <1>3 DEF Share, ShareFrom, ShareTo
<1>6. /\ SubSeq(ks, lo, hi) \in Seq(Keys)
      /\ Len(SubSeq(ks, lo, hi)) = IF lo <= hi THEN hi - lo + 1 ELSE 0
      /\ \A i \in 1 .. hi - lo + 1 : SubSeq(ks, lo, hi)[i] = ks[lo + i - 1]
  BY <1>3, <1>4, SubSeqProperties
<1> QED
  BY <1>3, <1>5, <1>6

(* A register loop that stays below the ceiling returns an index.          *)
LEMMA RegisterAllType ==
  ASSUME NEW idx \in Index, NEW ks \in Seq(Keys), idx.len + Len(ks) <= MaxLen
  PROVE  /\ RegisterAll(idx, ks) \in Index
         /\ RegisterAll(idx, ks).len = idx.len + Len(ks)
<1>1. idx.len \in Nat /\ Len(ks) \in Nat
  BY LenProperties, KeyIndexAssumption DEF Index
<1>2. \A p \in Pages : idx.pages[p] \o Share(ks, idx.len, p) \in Seq(Keys)
  <2> TAKE p \in Pages
  <2>1. p \in Nat
    BY DEF Pages
  <2>2. FirstSlot(p) \in Nat
    BY <2>1, FirstSlotType
  <2>3. Share(ks, idx.len, p) \in Seq(Keys)
    BY <1>1, <2>1, <2>2, ShareProperties
  <2> QED
    BY <2>3, ConcatProperties DEF Index
<1>3. (IF ks = << >> THEN idx.page_count
       ELSE Greatest(idx.page_count, (idx.len + Len(ks) - 1) \div PageSize + 1)) \in Nat
  <2>1. CASE ks = << >>
    BY <2>1 DEF Index
  <2>2. CASE ks # << >>
    <3>1. idx.len + Len(ks) - 1 \in Nat
      BY <1>1, <2>2, EmptySeq
    <3>2. (idx.len + Len(ks) - 1) \div PageSize \in Nat
      BY <3>1, PageOf
    <3> QED
      BY <2>2, <3>2 DEF Greatest, Index
  <2> QED
    BY <2>1, <2>2
<1> QED
  BY <1>1, <1>2, <1>3, KeyIndexAssumption DEF RegisterAll, Index

-----------------------------------------------------------------------------
(* The fill of a page is at most a page.                                   *)
LEMMA FillType ==
  ASSUME NEW n \in Nat, NEW p \in Nat
  PROVE  /\ Fill(n, p) \in Nat
         /\ Fill(n, p) <= PageSize
BY FirstSlotType, KeyIndexAssumption DEF Fill, Greatest, Least

(* A position below `len` lies within the fill of its page.                *)
LEMMA PositionInFill ==
  ASSUME NEW n \in Nat, NEW i \in Nat, i < n
  PROVE  i % PageSize < Fill(n, i \div PageSize)
<1>1. PICK q \in Nat, r \in 0 .. (PageSize - 1) :
        q = i \div PageSize /\ r = i % PageSize
  BY PageOf
<1>2. i = FirstSlot(q) + r /\ FirstSlot(q) \in Nat
  BY <1>1, SlotOnPage, FirstSlotType
<1>3. r < Fill(n, q)
  BY <1>2, KeyIndexAssumption DEF Fill, Greatest, Least
<1> QED
  BY <1>1, <1>3

(* Registering ks adds to a page exactly what the larger length places on  *)
(* it.                                                                     *)
LEMMA ShareFills ==
  ASSUME NEW ks \in Seq(Keys), NEW n \in Nat, NEW p \in Nat
  PROVE  Len(Share(ks, n, p)) = Fill(n + Len(ks), p) - Fill(n, p)
<1>1. PICK l \in Nat : l = Len(ks)
  BY LenProperties
<1>2. PICK x \in Nat : x = FirstSlot(p)
  BY FirstSlotType
<1>3. PICK lo \in Int, hi \in Int : lo = ShareFrom(n, p) /\ hi = ShareTo(ks, n, p)
  BY ShareProperties
<1>4. lo = Greatest(1, x - n + 1) /\ hi = Least(l, x + PageSize - n)
  BY <1>1, <1>2, <1>3 DEF ShareFrom, ShareTo
<1>5. Len(Share(ks, n, p)) = IF lo <= hi THEN hi - lo + 1 ELSE 0
  BY <1>3, ShareProperties
<1>6. /\ Fill(n + Len(ks), p) = Greatest(0, Least(PageSize, n + l - x))
      /\ Fill(n, p) = Greatest(0, Least(PageSize, n - x))
  BY <1>1, <1>2 DEF Fill
<1>7. (IF lo <= hi THEN hi - lo + 1 ELSE 0)
        = Greatest(0, Least(PageSize, n + l - x)) - Greatest(0, Least(PageSize, n - x))
  BY <1>4, KeyIndexAssumption DEF Greatest, Least
<1> QED
  BY <1>5, <1>6, <1>7

(* A position that its page covers reads back a key.                       *)
LEMMA GetType ==
  ASSUME NEW idx \in Index, NEW i \in 0 .. MaxLen, Holds(idx, i)
  PROVE  Get(idx, i) \in Keys
<1>1. i \div PageSize \in Pages /\ i % PageSize \in Nat
  BY PageInRange, PageOf, KeyIndexAssumption
<1>2. idx.pages[i \div PageSize] \in Seq(Keys)
  BY <1>1 DEF Index
<1>3. (i % PageSize) + 1 \in 1 .. Len(idx.pages[i \div PageSize])
  BY <1>1, <1>2, LenProperties DEF Holds
<1> QED
  BY <1>2, <1>3, ElementOfSeq DEF Get

(* In an index whose pages cover its length, every position below len      *)
(* holds a key, which is the key get returns.                              *)
LEMMA CoversHolds ==
  ASSUME NEW idx \in Index, Covers(idx), NEW i \in 0 .. (idx.len - 1)
  PROVE  /\ Holds(idx, i)
         /\ Get(idx, i) \in Keys
<1>1. i \in 0 .. MaxLen /\ idx.len \in Nat
  BY KeyIndexAssumption DEF Index
<1>2. i \div PageSize \in Pages
  BY <1>1, PageInRange
<1>3. i % PageSize < Fill(idx.len, i \div PageSize)
  BY <1>1, PositionInFill
<1>4. i \div PageSize \in Nat /\ i % PageSize \in Nat
  BY <1>1, PageOf
<1>5. Fill(idx.len, i \div PageSize) \in Nat
  BY <1>1, <1>4, FillType
<1>6. Len(idx.pages[i \div PageSize]) \in Nat
  BY <1>2, LenProperties DEF Index
<1>7. Holds(idx, i)
  BY <1>2, <1>3, <1>4, <1>5, <1>6 DEF Covers, Holds
<1> QED
  BY <1>1, <1>7, GetType

(* What range returns from an index it can read.                           *)
LEMMA RangeType ==
  ASSUME NEW idx \in Index, NEW start \in Nat, NEW limit \in Nat,
         RangeReadable(idx, start, limit)
  PROVE  /\ RangeLen(idx, start, limit) \in 0 .. limit
         /\ start < idx.len => start + RangeLen(idx, start, limit) <= idx.len
         /\ start >= idx.len => RangeLen(idx, start, limit) = 0
         /\ RangeOf(idx, start, limit) \in Seq(Keys)
         /\ Len(RangeOf(idx, start, limit)) = RangeLen(idx, start, limit)
<1> DEFINE n == RangeLen(idx, start, limit)
<1>1. /\ n \in 0 .. limit
      /\ start < idx.len => start + n <= idx.len
      /\ start >= idx.len => n = 0
  BY KeyIndexAssumption DEF RangeLen, Least, Index
<1>2. \A i \in 1 .. n : Get(idx, start + i - 1) \in Keys
  <2> TAKE i \in 1 .. n
  <2>1. start + i - 1 \in start .. (start + n - 1)
    BY <1>1
  <2>2. start + i - 1 \in 0 .. MaxLen
    BY <1>1, KeyIndexAssumption DEF Index
  <2> QED
    BY <2>1, <2>2, GetType DEF RangeReadable
<1>3. RangeOf(idx, start, limit) \in Seq(Keys) /\ Len(RangeOf(idx, start, limit)) = n
  <2> HIDE DEF n
  <2>1. RangeOf(idx, start, limit) = [i \in 1 .. n |-> Get(idx, start + i - 1)]
    BY DEF RangeOf, n
  <2>2. n \in Nat
    BY <1>1
  <2> QED
    BY <1>2, <2>1, <2>2, IsASeq
<1> QED
  BY <1>1, <1>3

(* In such an index no window is corrupt.                                  *)
LEMMA CoversReadable ==
  ASSUME NEW idx \in Index, Covers(idx), NEW start \in Nat, NEW limit \in Nat
  PROVE  RangeReadable(idx, start, limit)
<1> SUFFICES ASSUME NEW i \in start .. (start + RangeLen(idx, start, limit) - 1)
             PROVE  Holds(idx, i)
  BY DEF RangeReadable
<1>1. i \in 0 .. (idx.len - 1)
  BY KeyIndexAssumption DEF RangeLen, Least, Index
<1> QED
  BY <1>1, CoversHolds

-----------------------------------------------------------------------------
(***************************************************************************)
(* The register loop of a batch, RegisterAll.  On an index that was never  *)
(* reset it appends: old positions keep their key, new ones read back the  *)
(* keys registered.  Over the leftovers of a reset only the first half     *)
(* holds.                                                                  *)
(***************************************************************************)
LEMMA RegisterAllFills ==
  ASSUME NEW idx \in Index, NEW ks \in Seq(Keys), NEW p \in Pages
  PROVE  Len(RegisterAll(idx, ks).pages[p]) - Fill(RegisterAll(idx, ks).len, p)
           = Len(idx.pages[p]) - Fill(idx.len, p)
<1>1. idx.len \in Nat /\ Len(ks) \in Nat /\ p \in Nat
  BY LenProperties, KeyIndexAssumption DEF Index, Pages
<1>2. PICK total \in Nat : total = idx.len + Len(ks)
  BY <1>1
<1>3. FirstSlot(p) \in Nat
  BY <1>1, FirstSlotType
<1>4. /\ idx.pages[p] \in Seq(Keys)
      /\ Share(ks, idx.len, p) \in Seq(Keys)
  BY <1>1, <1>3, ShareProperties DEF Index
<1>5. Len(idx.pages[p] \o Share(ks, idx.len, p))
        = Len(idx.pages[p]) + Len(Share(ks, idx.len, p))
  BY <1>4, ConcatProperties
<1>6. Len(Share(ks, idx.len, p)) = Fill(total, p) - Fill(idx.len, p)
  BY <1>1, <1>2, ShareFills
<1>7. Len(idx.pages[p]) \in Nat
  BY <1>4, LenProperties
<1>8. Fill(idx.len, p) \in Nat /\ Fill(total, p) \in Nat
  BY <1>1, FillType
<1>9. /\ RegisterAll(idx, ks).len = total
      /\ RegisterAll(idx, ks).pages[p] = idx.pages[p] \o Share(ks, idx.len, p)
  BY <1>2 DEF RegisterAll
<1>10. Len(RegisterAll(idx, ks).pages[p])
         = Len(idx.pages[p]) + (Fill(total, p) - Fill(idx.len, p))
  BY <1>5, <1>6, <1>9
<1> QED
  BY <1>7, <1>8, <1>9, <1>10

(* A register loop keeps the pages of an index covered, and clean ones     *)
(* clean.                                                                  *)
LEMMA RegisterAllCovers ==
  ASSUME NEW idx \in Index, NEW ks \in Seq(Keys), idx.len + Len(ks) <= MaxLen
  PROVE  /\ Covers(idx) => Covers(RegisterAll(idx, ks))
         /\ Clean(idx) => Clean(RegisterAll(idx, ks))
<1> DEFINE new == RegisterAll(idx, ks)
<1>1. new \in Index
  BY RegisterAllType
<1>2. \A p \in Pages :
        /\ Len(new.pages[p]) \in Nat /\ Len(idx.pages[p]) \in Nat
        /\ Fill(new.len, p) \in Nat /\ Fill(idx.len, p) \in Nat
  <2> TAKE p \in Pages
  <2>1. p \in Nat /\ new.len \in Nat /\ idx.len \in Nat
    BY <1>1, KeyIndexAssumption DEF Pages, Index
  <2>2. new.pages[p] \in Seq(Keys) /\ idx.pages[p] \in Seq(Keys)
    BY <1>1 DEF Index
  <2> HIDE DEF new
  <2> QED
    BY <2>1, <2>2, FillType, LenProperties
<1>3. \A p \in Pages : Len(new.pages[p]) - Fill(new.len, p)
                          = Len(idx.pages[p]) - Fill(idx.len, p)
  BY RegisterAllFills
<1> HIDE DEF new
<1>4. /\ Covers(idx) => Covers(new)
      /\ Clean(idx) => Clean(new)
  BY <1>2, <1>3 DEF Covers, Clean
<1> QED
  BY <1>4 DEF new

(* An index that is clean covers its positions.                            *)
LEMMA CleanCovers ==
  ASSUME NEW idx \in Index, Clean(idx)
  PROVE  Covers(idx)
<1> SUFFICES ASSUME NEW p \in Pages
             PROVE  Len(idx.pages[p]) >= Fill(idx.len, p)
  BY DEF Covers
<1>1. Len(idx.pages[p]) \in Nat
  BY LenProperties DEF Index
<1> QED
  BY <1>1 DEF Clean

(* Where the elements of a concatenation come from.                        *)
LEMMA ConcatReadsLeft ==
  ASSUME NEW s \in Seq(Keys), NEW t \in Seq(Keys), NEW j \in Nat, j < Len(s)
  PROVE  (s \o t)[j + 1] = s[j + 1]
<1>1. Len(s) \in Nat /\ Len(t) \in Nat
  BY LenProperties
<1>2. j + 1 \in 1 .. Len(s) + Len(t) /\ j + 1 <= Len(s)
  BY <1>1
<1> QED
  BY <1>2, ConcatProperties

(* ... and those past the first sequence come from the second.             *)
LEMMA ConcatReadsRight ==
  ASSUME NEW s \in Seq(Keys), NEW t \in Seq(Keys), NEW j \in Nat,
         NEW k \in 1 .. Len(t), j + 1 = Len(s) + k
  PROVE  (s \o t)[j + 1] = t[k]
<1>1. Len(s) \in Nat /\ Len(t) \in Nat
  BY LenProperties
<1>2. /\ j + 1 \in 1 .. Len(s) + Len(t)
      /\ ~(j + 1 <= Len(s))
      /\ j + 1 - Len(s) = k
  BY <1>1
<1> QED
  BY <1>2, ConcatProperties

(* Registering never moves or changes a key already registered.            *)
LEMMA RegisterAllKeeps ==
  ASSUME NEW idx \in Index, NEW ks \in Seq(Keys), Covers(idx),
         NEW i \in 0 .. (idx.len - 1)
  PROVE  Get(RegisterAll(idx, ks), i) = Get(idx, i)
<1>1. i \in 0 .. MaxLen /\ i \in Nat /\ idx.len \in Nat
  BY KeyIndexAssumption DEF Index
<1>2. PICK q \in Nat, r \in 0 .. (PageSize - 1) :
        q = i \div PageSize /\ r = i % PageSize
  BY <1>1, PageOf
<1>3. q \in Pages
  BY <1>1, <1>2, PageInRange
<1>4. FirstSlot(q) \in Nat
  BY FirstSlotType
<1>5. Holds(idx, i)
  BY CoversHolds
<1>6. r < Len(idx.pages[q])
  BY <1>2, <1>5 DEF Holds
<1>7. idx.pages[q] \in Seq(Keys) /\ Share(ks, idx.len, q) \in Seq(Keys)
  BY <1>1, <1>3, <1>4, ShareProperties DEF Index
<1>8. r \in Nat
  BY KeyIndexAssumption
<1>9. (idx.pages[q] \o Share(ks, idx.len, q))[r + 1] = idx.pages[q][r + 1]
  BY <1>6, <1>7, <1>8, ConcatReadsLeft
<1>10. RegisterAll(idx, ks).pages[q] = idx.pages[q] \o Share(ks, idx.len, q)
  BY <1>3 DEF RegisterAll
<1> QED
  BY <1>2, <1>9, <1>10 DEF Get

(* The element of ks that is registered in offset r of page p, where f     *)
(* keys already were.                                                      *)
LEMMA ShareReads ==
  ASSUME NEW ks \in Seq(Keys), NEW n \in Nat, NEW p \in Nat,
         NEW r \in Nat, r < PageSize,
         NEW j \in 1 .. Len(ks), FirstSlot(p) + r + 1 = n + j
  PROVE  \E k \in 1 .. Len(Share(ks, n, p)) :
           r + 1 = Fill(n, p) + k /\ Share(ks, n, p)[k] = ks[j]
<1>1. PICK l \in Nat : l = Len(ks)
  BY LenProperties
<1>2. PICK x \in Nat : x = FirstSlot(p) /\ x + r + 1 = n + j
  BY FirstSlotType
<1>3. PICK lo \in Int, hi \in Int : lo = ShareFrom(n, p) /\ hi = ShareTo(ks, n, p)
  BY ShareProperties
<1>4. lo = Greatest(1, x - n + 1) /\ hi = Least(l, x + PageSize - n)
  BY <1>1, <1>2, <1>3 DEF ShareFrom, ShareTo
<1>5. PICK f \in Nat : f = Fill(n, p)
  BY FillType
<1>6. f = Greatest(0, Least(PageSize, n - x))
  BY <1>2, <1>5 DEF Fill
<1>7. x + r + 1 = n + j /\ j <= l /\ j \in Nat
  BY <1>1, <1>2
<1>8. PICK k \in Nat : k >= 1 /\ k <= hi - lo + 1 /\ r + 1 = f + k /\ lo + k - 1 = j
  <2>1. /\ r + 1 - f \in Nat /\ r + 1 - f >= 1 /\ r + 1 - f <= hi - lo + 1
        /\ lo + (r + 1 - f) - 1 = j
    BY <1>4, <1>6, <1>7, KeyIndexAssumption DEF Greatest, Least
  <2>2. r + 1 = f + (r + 1 - f)
    OBVIOUS
  <2> QED
    BY <2>1, <2>2
<1>9. k \in 1 .. hi - lo + 1 /\ lo <= hi
  BY <1>8
<1>10. Len(Share(ks, n, p)) = hi - lo + 1
  BY <1>3, <1>9, ShareProperties
<1>11. Share(ks, n, p)[k] = ks[lo + k - 1]
  BY <1>3, <1>9, ShareProperties
<1>12. k \in 1 .. Len(Share(ks, n, p)) /\ Share(ks, n, p)[k] = ks[j] /\ r + 1 = Fill(n, p) + k
  BY <1>5, <1>8, <1>9, <1>10, <1>11
<1> QED
  BY <1>12

(* What was registered reads back, in order.                               *)
LEMMA RegisterAllReadsBack ==
  ASSUME NEW idx \in Index, NEW ks \in Seq(Keys), Clean(idx),
         idx.len + Len(ks) <= MaxLen,
         NEW i \in Nat, NEW j \in 1 .. Len(ks), i + 1 = idx.len + j
  PROVE  Get(RegisterAll(idx, ks), i) = ks[j]
<1>1. PICK n \in Nat : n = idx.len
  BY KeyIndexAssumption DEF Index
<1>2. i \in 0 .. MaxLen
  BY <1>1, LenProperties, KeyIndexAssumption
<1>3. PICK q \in Nat, r \in 0 .. (PageSize - 1) :
        q = i \div PageSize /\ r = i % PageSize
  BY PageOf
<1>4. q \in Pages
  BY <1>2, <1>3, PageInRange
<1>5. i = FirstSlot(q) + r /\ FirstSlot(q) \in Nat
  BY <1>3, SlotOnPage, FirstSlotType
<1>6. r \in Nat /\ r < PageSize /\ FirstSlot(q) + r + 1 = n + j
  BY <1>1, <1>5, KeyIndexAssumption
<1>7. idx.pages[q] \in Seq(Keys) /\ Len(idx.pages[q]) = Fill(n, q)
  BY <1>1, <1>4 DEF Clean, Index
<1>8. PICK k \in 1 .. Len(Share(ks, n, q)) :
        r + 1 = Len(idx.pages[q]) + k /\ Share(ks, n, q)[k] = ks[j]
  BY <1>6, <1>7, ShareReads
<1>9. Share(ks, n, q) \in Seq(Keys)
  BY ShareProperties
<1>10. (idx.pages[q] \o Share(ks, n, q))[r + 1] = ks[j]
  BY <1>6, <1>7, <1>8, <1>9, ConcatReadsRight
<1>11. RegisterAll(idx, ks).pages[q] = idx.pages[q] \o Share(ks, n, q)
  BY <1>1, <1>4 DEF RegisterAll
<1> QED
  BY <1>3, <1>10, <1>11 DEF Get

-----------------------------------------------------------------------------
(* One register call is a register loop over one key.                      *)
LEMMA RegisterIsRegisterAll ==
  ASSUME NEW idx \in Index, NEW k \in Keys, idx.len < MaxLen
  PROVE  Register(idx, k) = RegisterAll(idx, << k >>)
<1> DEFINE one == << k >>
<1>1. one \in Seq(Keys) /\ Len(one) = 1 /\ one # << >> /\ one[1] = k
  OBVIOUS
<1>2. PICK n \in Nat : n = idx.len /\ n <= MaxLen
  BY KeyIndexAssumption DEF Index
<1>3. PICK q \in Nat : q = n \div PageSize /\ q \in Pages
  BY <1>2, PageOf, PageInRange, KeyIndexAssumption
<1> HIDE DEF one
<1>4. ASSUME NEW p \in Pages, p # q
      PROVE  idx.pages[p] \o Share(one, n, p) = idx.pages[p]
  <2>1. p \in Nat
    BY DEF Pages
  <2>2. PICK x \in Nat, y \in Nat : x = FirstSlot(p) /\ y = FirstSlot(q)
    BY <2>1, FirstSlotType
  <2> PICK r \in 0 .. (PageSize - 1) : r = n % PageSize
    BY PageOf
  <2>3. n = y + r /\ r \in Nat /\ r < PageSize
    BY <1>2, <1>3, <2>2, SlotOnPage, KeyIndexAssumption
  <2>4. x + PageSize <= y \/ x >= y + PageSize
    <3>1. p < q \/ p > q
      BY <1>4, <2>1
    <3>2. p < q => p * PageSize + PageSize <= q * PageSize
      BY <2>1, KeyIndexAssumption
    <3>3. p > q => p * PageSize >= q * PageSize + PageSize
      BY <2>1, KeyIndexAssumption
    <3> QED
      BY <2>2, <3>1, <3>2, <3>3 DEF FirstSlot
  <2>5. Len(Share(one, n, p)) = 0
    <3>1. PICK lo \in Int, hi \in Int : lo = ShareFrom(n, p) /\ hi = ShareTo(one, n, p)
      BY <1>1, <2>1, ShareProperties
    <3>2. lo = Greatest(1, x - n + 1) /\ hi = Least(1, x + PageSize - n)
      BY <1>1, <2>2, <3>1 DEF ShareFrom, ShareTo
    <3>3. lo > hi
      BY <2>3, <2>4, <3>2, KeyIndexAssumption DEF Greatest, Least
    <3> QED
      BY <1>1, <2>1, <3>1, <3>3, ShareProperties
  <2>6. Share(one, n, p) = << >>
    BY <1>1, <2>1, <2>5, ShareProperties, EmptySeq
  <2>7. idx.pages[p] \in Seq(Keys)
    BY DEF Index
  <2> QED
    BY <2>6, <2>7, ConcatEmptySeq
<1>5. idx.pages[q] \o Share(one, n, q) = Append(idx.pages[q], k)
  <2>1. PICK y \in Nat, r \in Nat : y = FirstSlot(q) /\ r = n % PageSize
    BY <1>2, FirstSlotType, PageOf, KeyIndexAssumption
  <2>2. n = y + r /\ r < PageSize
    BY <1>2, <1>3, <2>1, SlotOnPage, PageOf, KeyIndexAssumption
  <2>3. PICK lo \in Int, hi \in Int : lo = ShareFrom(n, q) /\ hi = ShareTo(one, n, q)
    BY <1>1, ShareProperties
  <2>4. lo = Greatest(1, y - n + 1) /\ hi = Least(1, y + PageSize - n)
    BY <1>1, <2>1, <2>3 DEF ShareFrom, ShareTo
  <2>5. lo = 1 /\ hi = 1
    BY <2>2, <2>4, KeyIndexAssumption DEF Greatest, Least
  <2>6. Share(one, n, q) = SubSeq(one, 1, 1)
    BY <2>3, <2>5 DEF Share, ShareFrom, ShareTo
  <2>7. Share(one, n, q) = one
    BY <1>1, <2>6, SubSeqFull
  <2>8. idx.pages[q] \in Seq(Keys)
    BY <1>3 DEF Index
  <2> QED
    BY <2>7, <2>8, AppendIsConcat DEF one
<1>6. [idx.pages EXCEPT ![q] = Append(@, k)]
        = [p \in Pages |-> idx.pages[p] \o Share(one, n, p)]
  BY <1>3, <1>4, <1>5 DEF Index
<1>7. (idx.len + Len(one) - 1) \div PageSize = q
  BY <1>1, <1>2, <1>3
<1> QED
  BY <1>1, <1>2, <1>3, <1>6, <1>7 DEF Register, RegisterAll, one

-----------------------------------------------------------------------------
(* What a batch adds to an index that was never reset: exactly its keys.   *)
LEMMA IndexedRegisterAll ==
  ASSUME NEW idx \in Index, NEW ks \in Seq(Keys), Clean(idx),
         idx.len + Len(ks) <= MaxLen
  PROVE  Indexed(RegisterAll(idx, ks)) = Indexed(idx) \cup KeysOf(ks)
<1> DEFINE new == RegisterAll(idx, ks)
<1>1. PICK n \in Nat, l \in Nat : n = idx.len /\ l = Len(ks) /\ new.len = n + l
  BY RegisterAllType, LenProperties, KeyIndexAssumption DEF Index
<1>2. \A i \in 0 .. (n - 1) : Get(new, i) = Get(idx, i)
  BY <1>1, CleanCovers, RegisterAllKeeps
<1>3. \A i \in n .. (n + l - 1) : i - n + 1 \in 1 .. l /\ Get(new, i) = ks[i - n + 1]
  <2> TAKE i \in n .. (n + l - 1)
  <2>1. /\ i \in Nat
        /\ i - n + 1 \in 1 .. l
        /\ i + 1 = n + (i - n + 1)
    OBVIOUS
  <2>2. PICK j \in 1 .. l : j = i - n + 1 /\ i + 1 = n + j
    BY <2>1
  <2>3. j \in 1 .. Len(ks) /\ i + 1 = idx.len + j
    BY <1>1, <2>2
  <2>4. Get(new, i) = ks[j]
    BY <2>1, <2>3, RegisterAllReadsBack
  <2> QED
    BY <2>1, <2>2, <2>4
<1>4. \A j \in 1 .. l : n + j - 1 \in n .. (n + l - 1) /\ Get(new, n + j - 1) = ks[j]
  <2> TAKE j \in 1 .. l
  <2>1. n + j - 1 \in n .. (n + l - 1) /\ (n + j - 1) - n + 1 = j
    BY <1>1
  <2> QED
    BY <1>3, <2>1
<1> HIDE DEF new
<1>5. Indexed(new) = {Get(new, i) : i \in 0 .. (n + l - 1)}
  BY <1>1 DEF Indexed
<1>6. Indexed(idx) = {Get(idx, i) : i \in 0 .. (n - 1)}
  BY <1>1 DEF Indexed
<1>7. KeysOf(ks) = {ks[j] : j \in 1 .. l}
  BY <1>1, LenProperties DEF KeysOf
<1>8. \A k \in Indexed(new) : k \in Indexed(idx) \cup KeysOf(ks)
  <2> TAKE k \in Indexed(new)
  <2>1. PICK i \in 0 .. (n + l - 1) : k = Get(new, i)
    BY <1>5
  <2>2. CASE i < n
    BY <1>2, <1>6, <2>1, <2>2
  <2>3. CASE i >= n
    BY <1>3, <1>7, <2>1, <2>3
  <2> QED
    BY <2>1, <2>2, <2>3
<1>9. \A k \in Indexed(idx) \cup KeysOf(ks) : k \in Indexed(new)
  <2>1. \A k \in Indexed(idx) : k \in Indexed(new)
    BY <1>2, <1>5, <1>6
  <2>2. \A k \in KeysOf(ks) : k \in Indexed(new)
    BY <1>4, <1>5, <1>7
  <2> QED
    BY <2>1, <2>2
<1> QED
  BY <1>8, <1>9 DEF new

(* Whatever the pages held, registering loses none of the keys indexed.    *)
LEMMA IndexedGrows ==
  ASSUME NEW idx \in Index, NEW ks \in Seq(Keys), Covers(idx),
         idx.len + Len(ks) <= MaxLen
  PROVE  Indexed(idx) \subseteq Indexed(RegisterAll(idx, ks))
<1>1. PICK n \in Nat, l \in Nat :
        n = idx.len /\ l = Len(ks) /\ RegisterAll(idx, ks).len = n + l
  BY RegisterAllType, LenProperties, KeyIndexAssumption DEF Index
<1>2. \A i \in 0 .. (n - 1) : Get(RegisterAll(idx, ks), i) = Get(idx, i)
  BY <1>1, RegisterAllKeeps
<1> QED
  BY <1>1, <1>2 DEF Indexed

(* The keys of a readable window are keys of the index.                    *)
LEMMA WindowIndexed ==
  ASSUME NEW idx \in Index, NEW start \in Nat, NEW limit \in Nat,
         RangeReadable(idx, start, limit)
  PROVE  KeysOf(RangeOf(idx, start, limit)) \subseteq KeysFrom(idx, start)
<1>1. PICK n \in Nat : n = RangeLen(idx, start, limit)
  BY RangeType
<1>2. /\ start < idx.len => start + n <= idx.len
      /\ start >= idx.len => n = 0
  BY <1>1, RangeType
<1>3. RangeOf(idx, start, limit) = [i \in 1 .. n |-> Get(idx, start + i - 1)]
  BY <1>1 DEF RangeOf
<1>4. \A i \in 1 .. n : start + i - 1 \in start .. (idx.len - 1)
  BY <1>2, KeyIndexAssumption DEF Index
<1> QED
  BY <1>3, <1>4 DEF KeysOf, KeysFrom

-----------------------------------------------------------------------------
(* The empty index, one registration, and a reset.                         *)
LEMMA EmptyCovers == EmptyIndex \in Index /\ Clean(EmptyIndex)
<1>1. ASSUME NEW p \in Pages
      PROVE  Fill(0, p) = 0
  <2>1. FirstSlot(p) \in Nat
    BY FirstSlotType DEF Pages
  <2> QED
    BY <2>1, KeyIndexAssumption DEF Fill, Greatest, Least
<1>2. \A p \in Pages : Len(EmptyIndex.pages[p]) = 0
  BY DEF EmptyIndex
<1> QED
  BY <1>1, <1>2, EmptyIndexType DEF Clean, EmptyIndex

(* One registration keeps the pages covered, and clean ones clean, and     *)
(* every position below len reads what it read.                            *)
LEMMA RegisterCovers ==
  ASSUME NEW i \in Index, NEW k \in Keys, i.len < MaxLen
  PROVE  /\ Register(i, k) \in Index
         /\ Register(i, k).len = i.len + 1
         /\ Covers(i) => /\ Covers(Register(i, k))
                         /\ \A j \in 0 .. (i.len - 1) : Get(Register(i, k), j) = Get(i, j)
         /\ Clean(i) => Clean(Register(i, k))
<1>1. << k >> \in Seq(Keys) /\ Len(<< k >>) = 1
  OBVIOUS
<1>2. i.len + Len(<< k >>) <= MaxLen
  BY <1>1, KeyIndexAssumption DEF Index
<1> QED
  BY <1>1, <1>2, RegisterType, RegisterIsRegisterAll, RegisterAllCovers, RegisterAllKeeps

(* A reset leaves an index whose (no) positions are covered.               *)
LEMMA ResetCovers ==
  ASSUME NEW i \in Index
  PROVE  Reset(i) \in Index /\ Covers(Reset(i)) /\ Reset(i).pages = i.pages
<1>1. /\ Reset(i) = [len |-> 0, page_count |-> 0, pages |-> i.pages]
      /\ i.pages \in [Pages -> Seq(Keys)]
  <2>1. /\ i = [len |-> i.len, page_count |-> i.page_count, pages |-> i.pages]
        /\ i.pages \in [Pages -> Seq(Keys)]
    BY DEF Index
  <2>2. [i EXCEPT !.len = 0] = [len |-> 0, page_count |-> i.page_count, pages |-> i.pages]
    BY <2>1
  <2>3. Reset(i) = [[i EXCEPT !.len = 0] EXCEPT !.page_count = 0]
    BY <2>1 DEF Reset
  <2> QED
    BY <2>1, <2>2, <2>3
<1>2. /\ Reset(i) \in Index
      /\ Reset(i).len = 0 /\ Reset(i).pages = i.pages
  BY <1>1, KeyIndexAssumption DEF Index
<1>3. ASSUME NEW p \in Pages
      PROVE  Len(i.pages[p]) >= Fill(0, p)
  <2>1. FirstSlot(p) \in Nat
    BY FirstSlotType DEF Pages
  <2>2. Fill(0, p) = 0
    BY <2>1, KeyIndexAssumption DEF Fill, Greatest, Least
  <2>3. Len(i.pages[p]) \in Nat
    BY LenProperties DEF Index
  <2> QED
    BY <2>2, <2>3
<1> QED
  BY <1>2, <1>3 DEF Covers

(* One registration in a clean index adds its key and no other.            *)
LEMMA IndexedRegister ==
  ASSUME NEW i \in Index, NEW k \in Keys, Clean(i), i.len < MaxLen
  PROVE  Indexed(Register(i, k)) = Indexed(i) \cup {k}
<1>1. << k >> \in Seq(Keys) /\ Len(<< k >>) = 1 /\ KeysOf(<< k >>) = {k}
  BY DEF KeysOf
<1>2. i.len + Len(<< k >>) <= MaxLen
  BY <1>1, KeyIndexAssumption DEF Index
<1> QED
  BY <1>1, <1>2, RegisterIsRegisterAll, IndexedRegisterAll

-----------------------------------------------------------------------------
(***************************************************************************)
(* The two sides of a cursor: the keys a walk has passed and the keys it   *)
(* has still ahead of it.                                                  *)
(***************************************************************************)

(* Nothing is behind a walk that starts; the whole index is ahead of it,   *)
(* and nothing is ahead of a walk that passed the last key.                *)
LEMMA CursorEnds ==
  ASSUME NEW idx \in Index, NEW c \in Nat
  PROVE  /\ KeysBelow(idx, 0) = {}
         /\ KeysFrom(idx, 0) = Indexed(idx)
         /\ KeysFrom(idx, c) \subseteq Indexed(idx)
         /\ c >= idx.len => KeysFrom(idx, c) = {}
         /\ idx.len = 0 => Indexed(idx) = {}
<1>1. PICK n \in Nat : n = idx.len
  BY KeyIndexAssumption DEF Index
<1>2. Least(0, n) = 0
  BY DEF Least
<1>3. KeysBelow(idx, 0) = {}
  BY <1>1, <1>2 DEF KeysBelow
<1> QED
  BY <1>1, <1>3 DEF KeysFrom, Indexed

(* A window moves its keys from one side of the cursor to the other.       *)
LEMMA WindowMovesCursor ==
  ASSUME NEW idx \in Index, NEW c \in Nat, NEW limit \in Nat,
         NEW w, w = RangeOf(idx, c, limit), RangeReadable(idx, c, limit)
  PROVE  /\ KeysFrom(idx, c) = KeysOf(w) \cup KeysFrom(idx, c + Len(w))
         /\ KeysBelow(idx, c + Len(w)) \subseteq KeysBelow(idx, c) \cup KeysOf(w)
<1>1. PICK n \in Nat, l \in Nat : n = idx.len /\ l = Len(w)
  BY RangeType, KeyIndexAssumption DEF Index
<1>2. /\ l = RangeLen(idx, c, limit)
      /\ c < n => c + l <= n
      /\ c >= n => l = 0
  BY <1>1, RangeType
<1>3. w = [i \in 1 .. l |-> Get(idx, c + i - 1)]
  BY <1>2 DEF RangeOf
<1>4. KeysOf(w) = {Get(idx, i) : i \in c .. (c + l - 1)}
  <2>1. KeysOf(w) = {Get(idx, c + i - 1) : i \in 1 .. l}
    BY <1>3 DEF KeysOf
  <2>2. \A i \in c .. (c + l - 1) : i - c + 1 \in 1 .. l /\ c + (i - c + 1) - 1 = i
    OBVIOUS
  <2>3. \A i \in 1 .. l : c + i - 1 \in c .. (c + l - 1)
    OBVIOUS
  <2>4. \A k \in {Get(idx, i) : i \in c .. (c + l - 1)} : k \in KeysOf(w)
    <3> TAKE k \in {Get(idx, i) : i \in c .. (c + l - 1)}
    <3>1. PICK i \in c .. (c + l - 1) : k = Get(idx, i)
      OBVIOUS
    <3>2. PICK j \in 1 .. l : c + j - 1 = i
      BY <2>2
    <3> QED
      BY <2>1, <3>1, <3>2
  <2>5. \A k \in KeysOf(w) : k \in {Get(idx, i) : i \in c .. (c + l - 1)}
    BY <2>1, <2>3
  <2> QED
    BY <2>4, <2>5
<1>5. /\ c .. (n - 1) = (c .. (c + l - 1)) \cup ((c + l) .. (n - 1))
      /\ 0 .. (Least(c + l, n) - 1)
           \subseteq (0 .. (Least(c, n) - 1)) \cup (c .. (c + l - 1))
  BY <1>2 DEF Least
<1>6. KeysFrom(idx, c) = KeysOf(w) \cup KeysFrom(idx, c + l)
  BY <1>1, <1>4, <1>5 DEF KeysFrom
<1>7. KeysBelow(idx, c + l) \subseteq KeysBelow(idx, c) \cup KeysOf(w)
  BY <1>1, <1>4, <1>5 DEF KeysBelow
<1> QED
  BY <1>1, <1>6, <1>7

(* A key registered during a walk is ahead of it, and nothing else moves.  *)
LEMMA RegisterIsAhead ==
  ASSUME NEW i \in Index, NEW k \in Keys, Clean(i), i.len < MaxLen,
         NEW c \in Nat, c <= i.len
  PROVE  /\ KeysFrom(Register(i, k), c) = KeysFrom(i, c) \cup {k}
         /\ KeysBelow(Register(i, k), c) = KeysBelow(i, c)
<1> DEFINE new == Register(i, k)
<1>1. PICK n \in Nat : n = i.len
  BY KeyIndexAssumption DEF Index
<1>2. /\ new.len = n + 1
      /\ \A j \in 0 .. (n - 1) : Get(new, j) = Get(i, j)
  BY <1>1, CleanCovers, RegisterCovers
<1>3. Get(new, n) = k
  <2>1. << k >> \in Seq(Keys) /\ Len(<< k >>) = 1 /\ << k >>[1] = k
    OBVIOUS
  <2>2. i.len + Len(<< k >>) <= MaxLen /\ 1 \in 1 .. Len(<< k >>) /\ n + 1 = i.len + 1
    BY <1>1, <2>1, KeyIndexAssumption
  <2>3. Get(RegisterAll(i, << k >>), n) = << k >>[1]
    BY <2>1, <2>2, RegisterAllReadsBack
  <2>4. Register(i, k) = RegisterAll(i, << k >>)
    BY RegisterIsRegisterAll
  <2> QED
    BY <2>1, <2>3, <2>4
<1> HIDE DEF new
<1>4. KeysFrom(new, c) = KeysFrom(i, c) \cup {k}
  <2>1. c .. (n + 1 - 1) = (c .. (n - 1)) \cup {n}
    BY <1>1
  <2>2. \A j \in c .. (n - 1) : Get(new, j) = Get(i, j)
    BY <1>2
  <2>3. KeysFrom(new, c) = {Get(new, j) : j \in (c .. (n - 1)) \cup {n}}
    BY <1>2, <2>1 DEF KeysFrom
  <2>4. KeysFrom(i, c) = {Get(i, j) : j \in c .. (n - 1)}
    BY <1>1 DEF KeysFrom
  <2> QED
    BY <1>3, <2>2, <2>3, <2>4
<1>5. KeysBelow(new, c) = KeysBelow(i, c)
  <2>1. Least(c, n + 1) = c /\ Least(c, n) = c
    BY <1>1 DEF Least
  <2>2. \A j \in 0 .. (c - 1) : Get(new, j) = Get(i, j)
    BY <1>1, <1>2
  <2> QED
    BY <1>1, <1>2, <2>1, <2>2 DEF KeysBelow
<1> QED
  BY <1>4, <1>5 DEF new

-----------------------------------------------------------------------------
(* Offset r of page p is one position, and no other page's.                *)
LEMMA PositionOf ==
  ASSUME NEW p \in Nat, NEW r \in Nat, r < PageSize
  PROVE  /\ FirstSlot(p) + r \in Nat
         /\ (FirstSlot(p) + r) \div PageSize = p
         /\ (FirstSlot(p) + r) % PageSize = r
<1>1. /\ p * PageSize + r \in Nat
      /\ (p * PageSize + r) \div PageSize = p
      /\ (p * PageSize + r) % PageSize = r
  BY KeyIndexAssumption
<1> QED
  BY <1>1 DEF FirstSlot

(* On clean pages a page scan and a walk see the same keys.                *)
LEMMA CleanContains ==
  ASSUME NEW i \in Index, Clean(i), NEW k \in Keys
  PROVE  ContainsKey(i, k) <=> k \in Indexed(i)
<1>1. PICK n \in Nat : n = i.len
  BY KeyIndexAssumption DEF Index
<1>2. ASSUME k \in Indexed(i)
      PROVE  ContainsKey(i, k)
  <2>1. PICK pos \in 0 .. (n - 1) : k = Get(i, pos)
    BY <1>1, <1>2 DEF Indexed
  <2>2. PICK q \in Nat, r \in 0 .. (PageSize - 1) :
          q = pos \div PageSize /\ r = pos % PageSize
    BY <2>1, PageOf
  <2>3. q \in Pages
    <3>1. pos \in 0 .. MaxLen
      BY <1>1, <2>1, KeyIndexAssumption DEF Index
    <3> QED
      BY <2>2, <3>1, PageInRange
  <2>4. PICK x \in Nat : x = FirstSlot(q)
    BY FirstSlotType
  <2>5. pos = x + r
    BY <2>1, <2>2, <2>4, SlotOnPage
  <2>6. x < n
    BY <2>1, <2>5, KeyIndexAssumption
  <2>7. r < Len(i.pages[q])
    BY <1>1, <2>1, <2>2, CleanCovers, CoversHolds DEF Holds
  <2>8. r + 1 \in DOMAIN i.pages[q]
    BY <2>3, <2>7, LenProperties, KeyIndexAssumption DEF Index
  <2>9. k = i.pages[q][r + 1]
    BY <2>1, <2>2 DEF Get
  <2> QED
    BY <1>1, <2>3, <2>4, <2>6, <2>8, <2>9 DEF ContainsKey, KeysOf
<1>3. ASSUME ContainsKey(i, k)
      PROVE  k \in Indexed(i)
  <2>1. PICK p \in Pages : FirstSlot(p) < n /\ k \in KeysOf(i.pages[p])
    BY <1>1, <1>3 DEF ContainsKey
  <2>2. p \in Nat /\ i.pages[p] \in Seq(Keys)
    <3>1. p \in Nat
      BY DEF Pages
    <3>2. i.pages[p] \in Seq(Keys)
      BY DEF Index
    <3> QED
      BY <3>1, <3>2
  <2>3. PICK m \in 1 .. Len(i.pages[p]) : k = i.pages[p][m]
    BY <2>1, <2>2, LenProperties DEF KeysOf
  <2>4. PICK x \in Nat : x = FirstSlot(p) /\ x < n
    BY <2>1, <2>2, FirstSlotType
  <2>5. Len(i.pages[p]) = Greatest(0, Least(PageSize, n - x))
    BY <1>1, <2>4 DEF Clean, Fill
  <2>6. m \in Nat /\ m >= 1 /\ m <= Greatest(0, Least(PageSize, n - x))
    BY <2>2, <2>3, <2>5, LenProperties
  <2>7. PICK r \in Nat : m = r + 1 /\ r < PageSize /\ x + r < n
    <3>1. m - 1 \in Nat /\ m - 1 < PageSize /\ x + (m - 1) < n /\ m = (m - 1) + 1
      BY <2>4, <2>6, KeyIndexAssumption DEF Greatest, Least
    <3> QED
      BY <3>1
  <2>8. PICK pos \in Nat : pos = FirstSlot(p) + r /\ pos < n
    BY <2>4, <2>7
  <2>9. pos \div PageSize = p /\ pos % PageSize = r
    BY <2>2, <2>7, <2>8, PositionOf
  <2>10. Get(i, pos) = k
    BY <2>3, <2>7, <2>9 DEF Get
  <2>11. pos \in 0 .. (n - 1)
    BY <2>8
  <2> QED
    BY <1>1, <2>10, <2>11 DEF Indexed
<1> QED
  BY <1>2, <1>3

-----------------------------------------------------------------------------
(***************************************************************************)
(* What the pages of an index hold, below `len` or beyond it: what a reset *)
(* leaves behind, and what later registrations can make visible again.     *)
(***************************************************************************)
Stored(idx) == UNION {KeysOf(idx.pages[p]) : p \in Pages}

(* A walk visits stored keys only.                                         *)
LEMMA IndexedIsStored ==
  ASSUME NEW idx \in Index, Covers(idx)
  PROVE  Indexed(idx) \subseteq Stored(idx)
<1> SUFFICES ASSUME NEW i \in 0 .. (idx.len - 1)
             PROVE  Get(idx, i) \in Stored(idx)
  BY DEF Indexed
<1>1. i \in 0 .. MaxLen
  BY KeyIndexAssumption DEF Index
<1>2. PICK q \in Pages, r \in Nat : q = i \div PageSize /\ r = i % PageSize
  BY <1>1, PageInRange, PageOf, KeyIndexAssumption
<1>3. r < Len(idx.pages[q])
  BY <1>2, CoversHolds DEF Holds
<1>4. r + 1 \in DOMAIN idx.pages[q]
  <2>1. idx.pages[q] \in Seq(Keys)
    BY DEF Index
  <2> QED
    BY <1>2, <1>3, <2>1, LenProperties
<1>5. Get(idx, i) \in KeysOf(idx.pages[q])
  BY <1>2, <1>4 DEF Get, KeysOf
<1> QED
  BY <1>5 DEF Stored

(* The keys of a concatenation.                                            *)
LEMMA KeysOfConcat ==
  ASSUME NEW s \in Seq(Keys), NEW t \in Seq(Keys)
  PROVE  KeysOf(s \o t) \subseteq KeysOf(s) \cup KeysOf(t)
<1> SUFFICES ASSUME NEW i \in DOMAIN (s \o t)
             PROVE  (s \o t)[i] \in KeysOf(s) \cup KeysOf(t)
  BY DEF KeysOf
<1>1. /\ Len(s) \in Nat /\ Len(t) \in Nat /\ i \in 1 .. Len(s) + Len(t)
      /\ DOMAIN s = 1 .. Len(s) /\ DOMAIN t = 1 .. Len(t)
      /\ (s \o t)[i] = IF i <= Len(s) THEN s[i] ELSE t[i - Len(s)]
  BY ConcatProperties, LenProperties
<1>2. IF i <= Len(s) THEN i \in 1 .. Len(s) ELSE i - Len(s) \in 1 .. Len(t)
  BY <1>1
<1> QED
  BY <1>1, <1>2 DEF KeysOf

(* Registering stores the keys registered and no other.                    *)
LEMMA StoredRegisterAll ==
  ASSUME NEW idx \in Index, NEW ks \in Seq(Keys)
  PROVE  Stored(RegisterAll(idx, ks)) \subseteq Stored(idx) \cup KeysOf(ks)
<1> SUFFICES ASSUME NEW p \in Pages, NEW k \in KeysOf(RegisterAll(idx, ks).pages[p])
             PROVE  k \in Stored(idx) \cup KeysOf(ks)
  BY DEF Stored
<1> p \in Nat
  BY DEF Pages
<1>1. PICK n \in Nat, share \in Seq(Keys) : n = idx.len /\ share = Share(ks, n, p)
  <2>1. idx.len \in Nat
    BY KeyIndexAssumption DEF Index
  <2> QED
    BY <2>1, ShareProperties
<1>2. RegisterAll(idx, ks).pages[p] = idx.pages[p] \o share
  BY <1>1 DEF RegisterAll
<1>3. KeysOf(share) \subseteq KeysOf(ks)
  <2>1. PICK lo \in Int, hi \in Int, l \in Nat :
          /\ lo = ShareFrom(n, p) /\ hi = ShareTo(ks, n, p)
          /\ l = Len(ks)
    BY ShareProperties, LenProperties
  <2>2. /\ Len(share) = IF lo <= hi THEN hi - lo + 1 ELSE 0
        /\ \A i \in 1 .. hi - lo + 1 : share[i] = ks[lo + i - 1]
    <3>1. /\ Len(Share(ks, n, p)) = IF ShareFrom(n, p) <= ShareTo(ks, n, p)
                                    THEN ShareTo(ks, n, p) - ShareFrom(n, p) + 1 ELSE 0
          /\ \A i \in 1 .. ShareTo(ks, n, p) - ShareFrom(n, p) + 1 :
               Share(ks, n, p)[i] = ks[ShareFrom(n, p) + i - 1]
      BY ShareProperties
    <3> QED
      BY <1>1, <2>1, <3>1
  <2>3. lo >= 1 /\ hi <= l
    <3>1. PICK x \in Nat : x = FirstSlot(p)
      BY FirstSlotType
    <3> QED
      BY <2>1, <3>1, KeyIndexAssumption DEF ShareFrom, ShareTo, Greatest, Least
  <2>4. DOMAIN share = 1 .. Len(share) /\ DOMAIN ks = 1 .. l
    BY <2>1, LenProperties
  <2> SUFFICES ASSUME NEW i \in DOMAIN share PROVE share[i] \in KeysOf(ks)
    BY DEF KeysOf
  <2>5. i \in 1 .. hi - lo + 1 /\ lo + i - 1 \in 1 .. l
    BY <2>2, <2>3, <2>4
  <2> QED
    BY <2>2, <2>4, <2>5 DEF KeysOf
<1>4. KeysOf(idx.pages[p] \o share) \subseteq KeysOf(idx.pages[p]) \cup KeysOf(share)
  BY KeysOfConcat DEF Index
<1> QED
  BY <1>2, <1>3, <1>4 DEF Stored

(* One registration stores its key; a reset removes none.                  *)
LEMMA StoredRegister ==
  ASSUME NEW idx \in Index, NEW k \in Keys, idx.len < MaxLen
  PROVE  Stored(Register(idx, k)) \subseteq Stored(idx) \cup {k}
<1>1. << k >> \in Seq(Keys) /\ KeysOf(<< k >>) = {k}
  BY DEF KeysOf
<1> QED
  BY <1>1, RegisterIsRegisterAll, StoredRegisterAll

(* A reset leaves every page, and so what is stored.                       *)
LEMMA StoredReset ==
  ASSUME NEW idx \in Index
  PROVE  Stored(Reset(idx)) = Stored(idx)
BY ResetCovers DEF Stored

-----------------------------------------------------------------------------
(* What one more key adds to the share of a page: itself, if the page is   *)
(* the one its slot is on.                                                 *)
LEMMA ShareOfAppend ==
  ASSUME NEW ks \in Seq(Keys), NEW k \in Keys, NEW n \in Nat, NEW p \in Nat
  PROVE  Share(Append(ks, k), n, p) =
           IF p = (n + Len(ks)) \div PageSize
           THEN Append(Share(ks, n, p), k) ELSE Share(ks, n, p)
<1> DEFINE more == Append(ks, k)
<1>1. PICK l \in Nat : l = Len(ks)
  BY LenProperties
<1>2. /\ more \in Seq(Keys) /\ Len(more) = l + 1
      /\ \A j \in 1 .. l : more[j] = ks[j]
      /\ more[l + 1] = k
  BY <1>1, AppendProperties
<1>3. PICK x \in Nat : x = FirstSlot(p)
  BY FirstSlotType
<1>4. PICK q \in Nat, r \in 0 .. (PageSize - 1) :
        q = (n + l) \div PageSize /\ r = (n + l) % PageSize
  <2>1. n + l \in Nat
    OBVIOUS
  <2> QED
    BY <2>1, PageOf
<1>5. PICK y \in Nat : y = FirstSlot(q) /\ n + l = y + r
  <2>1. n + l \in Nat
    OBVIOUS
  <2> QED
    BY <1>4, <2>1, SlotOnPage, FirstSlotType
<1> HIDE DEF more
<1>6. PICK lo \in Int, hi \in Int, hi2 \in Int :
        /\ lo = ShareFrom(n, p) /\ hi = ShareTo(ks, n, p) /\ hi2 = ShareTo(more, n, p)
  BY <1>2, ShareProperties
<1>7. /\ lo = Greatest(1, x - n + 1)
      /\ hi = Least(l, x + PageSize - n) /\ hi2 = Least(l + 1, x + PageSize - n)
  BY <1>1, <1>2, <1>3, <1>6 DEF ShareFrom, ShareTo
<1>8. /\ Share(ks, n, p) \in Seq(Keys)
      /\ Len(Share(ks, n, p)) = IF lo <= hi THEN hi - lo + 1 ELSE 0
      /\ \A j \in 1 .. hi - lo + 1 : Share(ks, n, p)[j] = ks[lo + j - 1]
  <2>1. /\ Share(ks, n, p) \in Seq(Keys)
        /\ Len(Share(ks, n, p)) = IF ShareFrom(n, p) <= ShareTo(ks, n, p)
                                  THEN ShareTo(ks, n, p) - ShareFrom(n, p) + 1 ELSE 0
        /\ \A j \in 1 .. ShareTo(ks, n, p) - ShareFrom(n, p) + 1 :
             Share(ks, n, p)[j] = ks[ShareFrom(n, p) + j - 1]
    BY ShareProperties
  <2> QED
    BY <1>6, <2>1
<1>9. /\ Share(more, n, p) \in Seq(Keys)
      /\ Len(Share(more, n, p)) = IF lo <= hi2 THEN hi2 - lo + 1 ELSE 0
      /\ \A j \in 1 .. hi2 - lo + 1 : Share(more, n, p)[j] = more[lo + j - 1]
  <2>1. /\ Share(more, n, p) \in Seq(Keys)
        /\ Len(Share(more, n, p)) = IF ShareFrom(n, p) <= ShareTo(more, n, p)
                                    THEN ShareTo(more, n, p) - ShareFrom(n, p) + 1 ELSE 0
        /\ \A j \in 1 .. ShareTo(more, n, p) - ShareFrom(n, p) + 1 :
             Share(more, n, p)[j] = more[ShareFrom(n, p) + j - 1]
    BY <1>2, ShareProperties
  <2> QED
    BY <1>6, <2>1
<1>10. CASE p = q
  <2>1. hi = l /\ hi2 = l + 1 /\ lo >= 1 /\ lo <= l + 1
    <3>1. x = y /\ r \in Nat /\ r < PageSize
      BY <1>3, <1>5, <1>10, KeyIndexAssumption
    <3>2. x <= n + l /\ l + 1 <= x + PageSize - n
      BY <1>5, <3>1, KeyIndexAssumption
    <3> QED
      BY <1>7, <3>2, KeyIndexAssumption DEF Greatest, Least
  <2>2. PICK c \in Nat : c = l - lo + 1 /\ lo + c = l + 1
    <3>1. l - lo + 1 \in Nat /\ lo + (l - lo + 1) = l + 1
      BY <2>1
    <3> QED
      BY <3>1
  <2>3. Len(Share(ks, n, p)) = c /\ Len(Share(more, n, p)) = c + 1
    BY <1>8, <1>9, <2>1, <2>2
  <2>4. /\ Append(Share(ks, n, p), k) \in Seq(Keys)
        /\ Len(Append(Share(ks, n, p), k)) = c + 1
        /\ \A j \in 1 .. c : Append(Share(ks, n, p), k)[j] = Share(ks, n, p)[j]
        /\ Append(Share(ks, n, p), k)[c + 1] = k
    BY <1>8, <2>3, AppendProperties
  <2>5. \A j \in 1 .. c + 1 : Share(more, n, p)[j] = Append(Share(ks, n, p), k)[j]
    <3> TAKE j \in 1 .. c + 1
    <3>1. CASE j = c + 1
      <4>1. Share(more, n, p)[c + 1] = more[lo + (c + 1) - 1]
        BY <1>9, <2>1, <2>2
      <4>2. lo + (c + 1) - 1 = l + 1
        BY <2>2
      <4> QED
        BY <1>2, <2>4, <3>1, <4>1, <4>2
    <3>2. CASE j # c + 1
      <4>1. j \in 1 .. c /\ j \in 1 .. hi - lo + 1 /\ j \in 1 .. hi2 - lo + 1
            /\ lo + j - 1 \in 1 .. l
        BY <2>1, <2>2, <3>2
      <4> QED
        BY <1>2, <1>8, <1>9, <2>4, <4>1
    <3> QED
      BY <3>1, <3>2
  <2>6. Share(more, n, p) = Append(Share(ks, n, p), k)
    BY <1>9, <2>3, <2>4, <2>5, SeqEqual
  <2> QED
    BY <1>1, <1>4, <1>10, <2>6 DEF more
<1>11. CASE p # q
  <2>1. x + PageSize <= y \/ x >= y + PageSize
    <3>1. p < q \/ p > q
      BY <1>11
    <3>2. p < q => p * PageSize + PageSize <= q * PageSize
      BY KeyIndexAssumption
    <3>3. p > q => p * PageSize >= q * PageSize + PageSize
      BY KeyIndexAssumption
    <3> QED
      BY <1>3, <1>5, <3>1, <3>2, <3>3 DEF FirstSlot
  <2>2. hi = hi2 \/ (lo > hi /\ lo > hi2)
    BY <1>4, <1>5, <1>7, <2>1, KeyIndexAssumption DEF Greatest, Least
  <2>3. lo >= 1 /\ hi <= l
    BY <1>7, KeyIndexAssumption DEF Greatest, Least
  <2>4. Len(Share(ks, n, p)) = Len(Share(more, n, p))
    BY <1>8, <1>9, <2>2
  <2>5. ASSUME NEW j \in 1 .. Len(Share(ks, n, p))
        PROVE  Share(more, n, p)[j] = Share(ks, n, p)[j]
    <3>1. lo <= hi /\ hi = hi2 /\ j \in 1 .. hi - lo + 1
      BY <1>8, <2>2
    <3>2. lo + j - 1 \in 1 .. l
      BY <2>3, <3>1
    <3> QED
      BY <1>2, <1>8, <1>9, <3>1, <3>2
  <2>6. Share(more, n, p) = Share(ks, n, p)
    BY <1>8, <1>9, <2>4, <2>5, SeqEqual
  <2> QED
    BY <1>1, <1>4, <1>11, <2>6 DEF more
<1> QED
  BY <1>10, <1>11

(* Registering no key changes nothing.                                     *)
LEMMA RegisterAllOfNone ==
  ASSUME NEW idx \in Index
  PROVE  RegisterAll(idx, << >>) = idx
<1>1. PICK n \in Nat : n = idx.len
  BY KeyIndexAssumption DEF Index
<1>2. idx = [len |-> idx.len, page_count |-> idx.page_count, pages |-> idx.pages]
      /\ idx.pages \in [Pages -> Seq(Keys)] /\ idx.page_count \in Nat
  BY DEF Index
<1>3. ASSUME NEW p \in Pages
      PROVE  idx.pages[p] \o Share(<< >>, n, p) = idx.pages[p]
  <2>1. p \in Nat /\ << >> \in Seq(Keys) /\ Len(<< >>) = 0
    BY DEF Pages
  <2>2. Share(<< >>, n, p) \in Seq(Keys) /\ Len(Share(<< >>, n, p)) = Fill(n + 0, p) - Fill(n, p)
    BY <2>1, ShareProperties, ShareFills
  <2>3. Fill(n, p) \in Nat
    BY <2>1, FillType
  <2>4. Share(<< >>, n, p) = << >>
    BY <2>2, <2>3, EmptySeq
  <2> QED
    BY <1>2, <2>4, ConcatEmptySeq
<1>4. [p \in Pages |-> idx.pages[p] \o Share(<< >>, n, p)] = idx.pages
  BY <1>2, <1>3
<1>5. Len(<< >>) = 0
  OBVIOUS
<1> QED
  BY <1>1, <1>2, <1>4, <1>5 DEF RegisterAll

(* Registering one more key is one more register call, on the pages a      *)
(* reset left as well.                                                     *)
LEMMA RegisterOneMore ==
  ASSUME NEW idx \in Index, NEW ks \in Seq(Keys), NEW k \in Keys,
         idx.len + Len(ks) < MaxLen
  PROVE  RegisterAll(idx, Append(ks, k)) = Register(RegisterAll(idx, ks), k)
<1> DEFINE new == RegisterAll(idx, ks)
<1>1. PICK n \in Nat, l \in Nat : n = idx.len /\ l = Len(ks)
  BY LenProperties, KeyIndexAssumption DEF Index
<1>2. idx = [len |-> idx.len, page_count |-> idx.page_count, pages |-> idx.pages]
      /\ idx.pages \in [Pages -> Seq(Keys)] /\ idx.page_count \in Nat
  BY DEF Index
<1>3. PICK q \in Nat : q = (n + l) \div PageSize /\ q \in Pages
  <2>1. n + l \in Nat /\ n + l \in 0 .. MaxLen
    BY <1>1, KeyIndexAssumption
  <2> QED
    BY <2>1, PageOf, PageInRange
<1>4. new \in Index /\ new.len = n + l
  BY <1>1, RegisterAllType, KeyIndexAssumption
<1>5. Append(ks, k) # << >> /\ Len(Append(ks, k)) = l + 1 /\ Append(ks, k) \in Seq(Keys)
  BY <1>1, AppendProperties
<1>6. ASSUME NEW p \in Pages
      PROVE  idx.pages[p] \o Share(Append(ks, k), n, p)
               = IF p = q THEN Append(new.pages[p], k) ELSE new.pages[p]
  <2>1. p \in Nat /\ idx.pages[p] \in Seq(Keys)
    <3>1. p \in Nat
      BY DEF Pages
    <3> QED
      BY <1>2, <3>1
  <2>2. new.pages[p] = idx.pages[p] \o Share(ks, n, p)
    BY <1>1 DEF RegisterAll
  <2>3. Share(ks, n, p) \in Seq(Keys)
    BY <2>1, ShareProperties
  <2>4. idx.pages[p] \o Append(Share(ks, n, p), k) = Append(idx.pages[p] \o Share(ks, n, p), k)
    <3>1. PICK s \in Seq(Keys), u \in Seq(Keys) : s = idx.pages[p] /\ u = Share(ks, n, p)
      BY <2>1, <2>3
    <3>2. << k >> \in Seq(Keys) /\ s \o u \in Seq(Keys)
      BY ConcatProperties
    <3>3. Append(u, k) = u \o << k >> /\ Append(s \o u, k) = (s \o u) \o << k >>
      BY <3>2, AppendIsConcat
    <3>4. s \o (u \o << k >>) = (s \o u) \o << k >>
      BY <3>2, ConcatAssociative
    <3> QED
      BY <3>1, <3>3, <3>4
  <2>5. Share(Append(ks, k), n, p) = IF p = q THEN Append(Share(ks, n, p), k) ELSE Share(ks, n, p)
    <3>1. Share(Append(ks, k), n, p) = IF p = (n + Len(ks)) \div PageSize
                                       THEN Append(Share(ks, n, p), k) ELSE Share(ks, n, p)
      BY <2>1, ShareOfAppend
    <3> QED
      BY <1>1, <1>3, <3>1
  <2> QED
    BY <2>2, <2>4, <2>5
<1>7. [p \in Pages |-> idx.pages[p] \o Share(Append(ks, k), n, p)]
        = [new.pages EXCEPT ![q] = Append(@, k)]
  <2>1. new.pages \in [Pages -> Seq(Keys)]
    BY <1>4 DEF Index
  <2> HIDE DEF new
  <2> QED
    BY <1>3, <1>6, <2>1
<1>8. new.page_count \in Nat /\ Greatest(new.page_count, q + 1) = Greatest(idx.page_count, q + 1)
  <2>1. CASE ks = << >>
    BY <1>2, <2>1 DEF RegisterAll
  <2>2. CASE ks # << >>
    <3>1. n + l - 1 \in Nat /\ n + l - 1 <= n + l
      BY <1>1, <2>2, EmptySeq
    <3>2. PICK q0 \in Nat : q0 = (n + l - 1) \div PageSize /\ q0 <= q
      BY <1>3, <3>1, PageOf, PageOfMonotonic
    <3>3. new.page_count = Greatest(idx.page_count, q0 + 1)
      BY <1>1, <2>2, <3>2 DEF RegisterAll
    <3> QED
      BY <1>2, <3>2, <3>3 DEF Greatest
  <2> QED
    BY <2>1, <2>2
<1>9. RegisterAll(idx, Append(ks, k))
         = [len        |-> n + l + 1,
            page_count |-> Greatest(idx.page_count, q + 1),
            pages      |-> [p \in Pages |-> idx.pages[p] \o Share(Append(ks, k), n, p)]]
  <2>1. n + (l + 1) = n + l + 1 /\ n + (l + 1) - 1 = n + l
    OBVIOUS
  <2> QED
    BY <1>1, <1>3, <1>5, <2>1 DEF RegisterAll
<1>10. Register(new, k)
         = [len        |-> n + l + 1,
            page_count |-> Greatest(new.page_count, q + 1),
            pages      |-> [new.pages EXCEPT ![q] = Append(@, k)]]
  <2> HIDE DEF new
  <2> QED
    BY <1>3, <1>4 DEF Register
<1> HIDE DEF new
<1>11. RegisterAll(idx, Append(ks, k)) = Register(new, k)
  BY <1>7, <1>8, <1>9, <1>10
<1> QED
  BY <1>11 DEF new
=============================================================================
