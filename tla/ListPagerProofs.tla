--------------------------- MODULE ListPagerProofs ---------------------------
(***************************************************************************)
(* Why a listing of a changing bucket is true and complete, for any number *)
(* of keys and however R2 cuts its pages.  What was listed lies below what *)
(* is buffered, and both below the cursor; and every key below the cursor  *)
(* that was there all the time is listed, buffered or rolled up.           *)
(***************************************************************************)
EXTENDS ListPager, SequenceTheorems, FiniteSetTheorems, TLAPS

\* The listed keys ascend, the buffered ones descend from above them.
Ordered(l, b) ==
    /\ \A i, j \in DOMAIN l : i < j => l[i] < l[j]
    /\ \A i, j \in DOMAIN b : i < j => b[j] < b[i]
    /\ \A i \in DOMAIN l, j \in DOMAIN b : l[i] < b[j]

\* The keys that have been fetched.
Fetched == Range(listed) \cup Range(buffered)

CursorInv ==
    /\ cursor # NoCursor => \A k \in Fetched : k <= cursor
    /\ state = "running" /\ ~finished => cursor # NoCursor
    /\ finished => cursor = NoCursor
    /\ state = "ended" => cursor = NoCursor /\ buffered = <<>>
    /\ mode = "delimited" => buffered = <<>> /\ ~finished
    /\ prefixes <= IF cursor = NoCursor THEN MaxKey ELSE cursor

CoverInv ==
    /\ always \subseteq present /\ present \subseteq ever /\ Fetched \subseteq ever
    /\ \A k \in always :
         cursor = NoCursor \/ k <= cursor =>
             IF mode = "list" \/ k \notin Nested THEN k \in Fetched ELSE prefixes > 0

IInv == ListTypeOK /\ Ordered(listed, buffered) /\ CursorInv /\ CoverInv

----------------------------------------------------------------------------
\* Taking the last item of the buffer keeps the order and loses no key.
LEMMA ItemTaken ==
    ASSUME NEW l \in Seq(Keys), NEW b \in Seq(Keys), b # <<>>, Ordered(l, b)
    PROVE  /\ Append(l, b[Len(b)]) \in Seq(Keys)
           /\ SubSeq(b, 1, Len(b) - 1) \in Seq(Keys)
           /\ Ordered(Append(l, b[Len(b)]), SubSeq(b, 1, Len(b) - 1))
           /\ Range(Append(l, b[Len(b)])) \cup Range(SubSeq(b, 1, Len(b) - 1))
                = Range(l) \cup Range(b)
<1> DEFINE m == Len(l)
           n == Len(b)
           l2 == Append(l, b[n])
           b2 == SubSeq(b, 1, n - 1)
<1>1. /\ m \in Nat /\ DOMAIN l = 1..m
      /\ n \in Nat \ {0} /\ DOMAIN b = 1..n
      /\ \A i \in 1..m : l[i] \in Keys
      /\ \A i \in 1..n : b[i] \in Keys
  BY EmptySeq, LenProperties, ElementOfSeq
<1>2. /\ l2 \in Seq(Keys) /\ DOMAIN l2 = 1..(m + 1)
      /\ \A i \in 1..m : l2[i] = l[i]
      /\ l2[m + 1] = b[n]
  BY <1>1
<1>3. /\ b2 \in Seq(Keys) /\ DOMAIN b2 = 1..(n - 1)
      /\ \A i \in 1..(n - 1) : b2[i] = b[i]
  <2>1. /\ b2 \in Seq(Keys)
        /\ Len(b2) = IF 1 <= n - 1 THEN n - 1 - 1 + 1 ELSE 0
        /\ \A i \in 1..(n - 1 - 1 + 1) : b2[i] = b[1 + i - 1]
    BY <1>1, SubSeqProperties
  <2>2. Len(b2) = n - 1
    BY <1>1, <2>1
  <2>3. DOMAIN b2 = 1..(n - 1)
    BY <2>1, <2>2, LenProperties
  <2>4. QED BY <1>1, <2>1, <2>3
<1>4. Ordered(l2, b2)
  <2>1. \A i, j \in 1..(m + 1) : i < j => l2[i] < l2[j]
    BY <1>1, <1>2 DEF Ordered
  <2>2. \A i, j \in 1..(n - 1) : i < j => b2[j] < b2[i]
    BY <1>1, <1>3 DEF Ordered
  <2>3. \A i \in 1..(m + 1), j \in 1..(n - 1) : l2[i] < b2[j]
    BY <1>1, <1>2, <1>3 DEF Ordered
  <2>4. QED BY <1>2, <1>3, <2>1, <2>2, <2>3 DEF Ordered
<1>5. Range(l2) \cup Range(b2) = Range(l) \cup Range(b)
  <2>1. Range(l2) = Range(l) \cup {b[n]}
    <3>1. 1..(m + 1) = 1..m \cup {m + 1}
      BY <1>1
    <3>2. Range(l2) = {l2[i] : i \in 1..m} \cup {l2[m + 1]}
      BY <1>2, <3>1 DEF Range
    <3>3. Range(l) = {l2[i] : i \in 1..m}
      BY <1>1, <1>2 DEF Range
    <3>4. QED BY <1>2, <3>2, <3>3
  <2>2. Range(b) = Range(b2) \cup {b[n]}
    <3>1. 1..n = 1..(n - 1) \cup {n}
      BY <1>1
    <3>2. Range(b2) = {b[i] : i \in 1..(n - 1)}
      BY <1>3 DEF Range
    <3>3. Range(b) = {b[i] : i \in 1..n}
      BY <1>1 DEF Range
    <3>4. QED BY <3>1, <3>2, <3>3
  <2>3. QED BY <2>1, <2>2
<1>6. QED BY <1>2, <1>3, <1>4, <1>5

\* What a page holds.
LEMMA PageShape ==
    ASSUME ListTypeOK, NEW last \in Cursors, cursor \in Cursors,
           NEW page \in Objects(last)
    PROVE  /\ page \in Seq(Keys)
           /\ Range(page) = OnPage(last)
           /\ \A i, j \in DOMAIN page : i < j => page[i] < page[j]
           /\ \A k \in OnPage(last) : k \in Keys /\ k \in present /\ k > cursor /\ k <= last
<1>1. \A k \in OnPage(last) : k \in Keys /\ k \in present /\ k > cursor /\ k <= last
  BY MaxKeyAssumption DEF OnPage, Span, ListTypeOK, Cursors, Keys
<1>2. IsFiniteSet(Keys)
  BY FS_Interval, MaxKeyAssumption DEF Keys
<1>3. Cardinality(OnPage(last)) \in Nat
  BY <1>1, <1>2, FS_Subset, FS_CardinalityType
<1>4. /\ page \in [1..Cardinality(OnPage(last)) -> OnPage(last)]
      /\ Range(page) = OnPage(last)
      /\ \A i, j \in DOMAIN page : i < j => page[i] < page[j]
  BY DEF Objects
<1>5. page \in [1..Cardinality(OnPage(last)) -> Keys]
  BY <1>1, <1>4
<1>6. page \in Seq(Keys)
  BY <1>3, <1>5
<1>7. QED BY <1>1, <1>4, <1>6

\* A reversed page descends and holds the same keys.
LEMMA ReversedShape ==
    ASSUME NEW page \in Seq(Keys),
           \A i, j \in DOMAIN page : i < j => page[i] < page[j]
    PROVE  /\ Reversed(page) \in Seq(Keys)
           /\ Range(Reversed(page)) = Range(page)
           /\ \A i, j \in DOMAIN Reversed(page) :
                i < j => Reversed(page)[j] < Reversed(page)[i]
<1> DEFINE n == Len(page)
<1>1. n \in Nat /\ DOMAIN page = 1..n /\ \A i \in 1..n : page[i] \in Keys
  BY LenProperties, ElementOfSeq
<1>2. /\ DOMAIN Reversed(page) = 1..n
      /\ \A i \in 1..n : Reversed(page)[i] = page[n + 1 - i] /\ n + 1 - i \in 1..n
  BY <1>1 DEF Reversed
<1>3. Reversed(page) \in Seq(Keys)
  <2>1. Reversed(page) \in [1..n -> Keys]
    BY <1>1, <1>2 DEF Reversed
  <2>2. QED BY <1>1, <2>1
<1>4. Range(Reversed(page)) = Range(page)
  <2>1. \A i \in 1..n : n + 1 - (n + 1 - i) = i
    BY <1>1
  <2>2. \A i \in 1..n : page[i] = Reversed(page)[n + 1 - i] /\ n + 1 - i \in 1..n
    BY <1>1, <1>2, <2>1
  <2>3. QED BY <1>1, <1>2, <2>2 DEF Range
<1>5. ASSUME NEW i \in 1..n, NEW j \in 1..n, i < j
      PROVE  Reversed(page)[j] < Reversed(page)[i]
  <2>1. n + 1 - j < n + 1 - i
    BY <1>1, <1>5
  <2>2. QED BY <1>1, <1>2, <2>1
<1>6. QED BY <1>2, <1>3, <1>4, <1>5

----------------------------------------------------------------------------
\* Nothing is listed in the initial states.
LEMMA InitInv == Init => IInv
<1> SUFFICES ASSUME Init PROVE IInv
  OBVIOUS
<1>1. ListTypeOK
  <2>1. 0 \in Cursors /\ 0 \in 0..MaxKey
    BY MaxKeyAssumption DEF Cursors
  <2>2. <<>> \in Seq(Keys)
    BY EmptySeq
  <2>3. QED BY <2>1, <2>2 DEF Init, ListTypeOK
<1>2. Ordered(listed, buffered) /\ Fetched = {}
  BY DEF Init, Ordered, Fetched, Range
<1>3. CursorInv
  BY <1>2, NoCursorAssumption, MaxKeyAssumption DEF Init, CursorInv, Cursors
<1>4. CoverInv
  <2>1. \A k \in always : ~(cursor = NoCursor \/ k <= cursor)
    BY NoCursorAssumption, MaxKeyAssumption DEF Init, Keys, Cursors
  <2>2. QED BY <1>2, <2>1 DEF Init, CoverInv
<1>5. QED BY <1>1, <1>2, <1>3, <1>4 DEF IInv

\* Objects come and go.
LEMMA BucketKeeps ==
    ASSUME IInv, NEW k \in Keys, Create(k) \/ Delete(k)
    PROVE  IInv'
<1>1. /\ UNCHANGED call
      /\ present' \subseteq Keys /\ ever' \subseteq Keys
      /\ always' \subseteq always /\ always' \subseteq present'
      /\ ever \subseteq ever' /\ present' \subseteq ever'
  BY DEF Create, Delete, IInv, ListTypeOK, CoverInv
<1>2. ListTypeOK'
  BY <1>1 DEF IInv, ListTypeOK, call
<1>3. Ordered(listed, buffered)' /\ CursorInv' /\ Fetched' = Fetched
  BY <1>1 DEF IInv, CursorInv, Fetched, call, Ordered
<1>4. CoverInv'
  BY <1>1, <1>3 DEF IInv, CoverInv, call
<1>5. QED BY <1>2, <1>3, <1>4 DEF IInv

\* An entry handed out was the first of those buffered.
LEMMA YieldKeeps ==
    ASSUME IInv, Yield
    PROVE  IInv'
<1>1. listed \in Seq(Keys) /\ buffered \in Seq(Keys) /\ Ordered(listed, buffered)
  BY DEF IInv, ListTypeOK
<1>2. /\ listed' \in Seq(Keys) /\ buffered' \in Seq(Keys)
      /\ Ordered(listed', buffered')
      /\ Range(listed') \cup Range(buffered') = Fetched
  BY <1>1, ItemTaken DEF Yield, Fetched
<1>3. Fetched' = Fetched
  BY <1>2 DEF Fetched
<1>4. ListTypeOK'
  BY <1>2 DEF IInv, ListTypeOK, Yield
<1>5. CursorInv'
  BY <1>3 DEF IInv, CursorInv, Yield
<1>6. CoverInv'
  BY <1>3 DEF IInv, CoverInv, Yield
<1>7. Ordered(listed, buffered)'
  BY <1>2 DEF Ordered
<1>8. QED BY <1>4, <1>5, <1>6, <1>7 DEF IInv

\* The listing stops, having lost nothing.
LEMMA EndKeeps ==
    ASSUME IInv, StreamEnds \/ PageFails
    PROVE  IInv'
<1>1. UNCHANGED <<present, mode, cursor, buffered, finished, listed, prefixes, always, ever>>
  BY DEF StreamEnds, PageFails
<1>2. Fetched' = Fetched /\ Ordered(listed, buffered)'
  BY <1>1 DEF IInv, Fetched, Ordered
<1>3. ListTypeOK'
  BY <1>1 DEF StreamEnds, PageFails, IInv, ListTypeOK
<1>4. CursorInv'
  BY <1>1, <1>2 DEF StreamEnds, PageFails, Fetching, IInv, CursorInv
<1>5. CoverInv'
  BY <1>1, <1>2 DEF IInv, CoverInv
<1>6. QED BY <1>2, <1>3, <1>4, <1>5 DEF IInv

\* The listing before a page: nothing is buffered, and every key that stayed
\* lies below the cursor and is accounted for, or above it.
LEMMA BeforePage ==
    ASSUME IInv, Fetching
    PROVE  /\ cursor \in Cursors /\ cursor # NoCursor /\ buffered = <<>> /\ ~finished
           /\ listed \in Seq(Keys)
           /\ Fetched = Range(listed)
           /\ \A k \in Range(listed) : k \in Keys /\ k <= cursor
           /\ \A i \in DOMAIN listed : listed[i] \in Keys /\ listed[i] <= cursor
<1>1. /\ cursor \in Cursors /\ cursor # NoCursor /\ buffered = <<>> /\ ~finished
      /\ listed \in Seq(Keys)
  BY DEF IInv, ListTypeOK, CursorInv, Fetching
<1>2. Fetched = Range(listed)
  BY <1>1 DEF Fetched, Range
<1>3. \A i \in DOMAIN listed : listed[i] \in Keys /\ listed[i] \in Range(listed)
  BY <1>1, LenProperties, ElementOfSeq DEF Range
<1>4. \A k \in Range(listed) : k \in Keys /\ k <= cursor
  BY <1>1, <1>2, <1>3 DEF IInv, CursorInv, Range
<1>5. QED BY <1>1, <1>2, <1>3, <1>4

\* Where a page leaves the cursor.
LEMMA CursorMoves ==
    ASSUME ListTypeOK, cursor \in Cursors, NEW last \in Cursors, NEW truncated \in BOOLEAN,
           PageEnd(last, truncated), cursor' = NextListCursor(truncated, last)
    PROVE  /\ cursor' \in Cursors \cup {NoCursor}
           /\ cursor' # NoCursor => cursor' = last
           /\ cursor <= last
           /\ \A k \in present : cursor' = NoCursor \/ k <= cursor' => k <= last
<1>1. CASE truncated
  BY <1>1, NoCursorAssumption DEF NextListCursor, PageEnd
<1>2. CASE ~truncated
  BY <1>2 DEF NextListCursor, PageEnd
<1>3. QED BY <1>1, <1>2

\* A page that is buffered lies between the two cursors.
LEMMA PageYieldsKeeps ==
    ASSUME IInv, NEW last \in Cursors, NEW truncated \in BOOLEAN,
           PageYields(last, truncated)
    PROVE  IInv'
<1>0. ListTypeOK /\ Fetching /\ mode = "list" /\ PageEnd(last, truncated)
  BY DEF IInv, PageYields
<1>1. /\ cursor \in Cursors /\ cursor # NoCursor /\ buffered = <<>> /\ ~finished
      /\ listed \in Seq(Keys)
      /\ Fetched = Range(listed)
      /\ \A k \in Range(listed) : k \in Keys /\ k <= cursor
      /\ \A i \in DOMAIN listed : listed[i] \in Keys /\ listed[i] <= cursor
  BY <1>0, BeforePage
<1>2. PICK page \in Objects(last) :
        /\ listed' = Append(listed, Reversed(page)[Len(Reversed(page))])
        /\ buffered' = SubSeq(Reversed(page), 1, Len(Reversed(page)) - 1)
  BY DEF PageYields
<1> DEFINE items == Reversed(page)
<1>3. /\ page \in Seq(Keys) /\ Range(page) = OnPage(last)
      /\ \A i, j \in DOMAIN page : i < j => page[i] < page[j]
      /\ \A k \in OnPage(last) : k \in Keys /\ k \in present /\ k > cursor /\ k <= last
  BY <1>0, <1>1, PageShape
<1>4. /\ items \in Seq(Keys) /\ Range(items) = OnPage(last)
      /\ \A i, j \in DOMAIN items : i < j => items[j] < items[i]
  BY <1>3, ReversedShape
<1>5. items # <<>>
  BY <1>4 DEF PageYields, Range
<1>6. Ordered(listed, items)
  <2>1. \A i \in DOMAIN items : items[i] \in OnPage(last)
    BY <1>4 DEF Range
  <2>2. \A i \in DOMAIN listed, j \in DOMAIN items : listed[i] < items[j]
    BY <1>1, <1>3, <2>1 DEF Cursors, Keys
  <2>3. \A i, j \in DOMAIN listed : i < j => listed[i] < listed[j]
    BY DEF IInv, Ordered
  <2>4. QED BY <1>4, <2>2, <2>3 DEF Ordered
<1>7. /\ listed' \in Seq(Keys) /\ buffered' \in Seq(Keys)
      /\ Ordered(listed', buffered')
      /\ Range(listed') \cup Range(buffered') = Range(listed) \cup OnPage(last)
  BY <1>1, <1>2, <1>4, <1>5, <1>6, ItemTaken
<1>8. Fetched' = Range(listed) \cup OnPage(last)
  BY <1>7 DEF Fetched
<1>9. /\ cursor' \in Cursors \cup {NoCursor}
      /\ cursor' # NoCursor => cursor' = last
      /\ cursor <= last
      /\ \A k \in present : cursor' = NoCursor \/ k <= cursor' => k <= last
  BY <1>0, <1>1, CursorMoves DEF PageYields
<1>10. ListTypeOK'
  BY <1>0, <1>7, <1>9 DEF ListTypeOK, PageYields
<1>11. CursorInv'
  <2>1. \A k \in Fetched' : k <= last
    BY <1>1, <1>3, <1>8, <1>9 DEF Cursors, Keys
  <2>2. prefixes <= cursor /\ prefixes' = prefixes /\ prefixes \in Nat
    BY <1>0, <1>1 DEF IInv, CursorInv, ListTypeOK, PageYields
  <2>3. prefixes <= last /\ last <= MaxKey
    BY <1>1, <1>9, <2>2, MaxKeyAssumption DEF Cursors
  <2>4. prefixes' <= IF cursor' = NoCursor THEN MaxKey ELSE cursor'
    BY <1>9, <2>2, <2>3, MaxKeyAssumption DEF Cursors
  <2>5. QED BY <1>0, <1>9, <2>1, <2>4 DEF PageYields, CursorInv, Fetching
<1>12. CoverInv'
  <2>1. UNCHANGED <<present, mode, prefixes, always, ever>>
    BY DEF PageYields
  <2>2. Fetched' \subseteq ever
    BY <1>1, <1>3, <1>8 DEF IInv, CoverInv
  <2>3. ASSUME NEW k \in always, k <= last
        PROVE  k \in Range(listed) \cup OnPage(last)
    <3>1. k \in present /\ k \in Keys
      BY DEF IInv, CoverInv, ListTypeOK
    <3>2. CASE k <= cursor
      BY <1>0, <1>1, <3>2 DEF IInv, CoverInv
    <3>3. CASE ~(k <= cursor)
      BY <1>0, <1>1, <2>3, <3>1, <3>3 DEF OnPage, Span, Cursors, Keys
    <3>4. QED BY <3>2, <3>3
  <2>4. always \subseteq present /\ present \subseteq ever
    BY DEF IInv, CoverInv
  <2>5. QED BY <1>0, <1>8, <1>9, <2>1, <2>2, <2>3, <2>4 DEF CoverInv
<1>13. Ordered(listed, buffered)'
  BY <1>7 DEF Ordered
<1>14. QED BY <1>10, <1>11, <1>12, <1>13 DEF IInv

\* A page without entries moves the cursor only.
LEMMA EmptyPageKeeps ==
    ASSUME IInv, NEW last \in Cursors, NEW truncated \in BOOLEAN,
           EmptyPage(last, truncated)
    PROVE  IInv'
<1>0. /\ ListTypeOK /\ Fetching /\ mode = "list" /\ PageEnd(last, truncated)
      /\ OnPage(last) = {}
      /\ UNCHANGED <<present, mode, buffered, finished, listed, prefixes, always, ever>>
  BY DEF IInv, EmptyPage
<1>1. /\ cursor \in Cursors /\ cursor # NoCursor /\ buffered = <<>> /\ ~finished
      /\ Fetched = Range(listed)
      /\ \A k \in Range(listed) : k \in Keys /\ k <= cursor
  BY <1>0, BeforePage
<1>2. /\ cursor' \in Cursors \cup {NoCursor}
      /\ cursor' # NoCursor => cursor' = last
      /\ cursor <= last
      /\ \A k \in present : cursor' = NoCursor \/ k <= cursor' => k <= last
  BY <1>0, <1>1, CursorMoves DEF EmptyPage
<1>3. ListTypeOK'
  BY <1>0, <1>2 DEF ListTypeOK, EmptyPage
<1>4. Fetched' = Fetched /\ Ordered(listed, buffered)'
  BY <1>0 DEF Fetched, IInv, Ordered
<1>5. CursorInv'
  <2>1. \A k \in Fetched' : k <= last
    BY <1>1, <1>2, <1>4 DEF Cursors, Keys
  <2>2. prefixes <= cursor /\ prefixes \in Nat
    BY <1>0, <1>1 DEF IInv, CursorInv, ListTypeOK
  <2>3. prefixes <= last /\ last <= MaxKey
    BY <1>1, <1>2, <2>2, MaxKeyAssumption DEF Cursors
  <2>4. prefixes' <= IF cursor' = NoCursor THEN MaxKey ELSE cursor'
    BY <1>0, <1>2, <2>2, <2>3, MaxKeyAssumption DEF Cursors
  <2>5. state' = IF cursor' = NoCursor THEN "ended" ELSE "running"
    BY DEF EmptyPage
  <2>6. mode' = "list" /\ ~finished' /\ buffered' = <<>>
    BY <1>0, <1>1
  <2>7. cursor' # NoCursor => \A k \in Fetched' : k <= cursor'
    BY <1>2, <2>1
  <2>8. QED BY <2>4, <2>5, <2>6, <2>7 DEF CursorInv
<1>6. CoverInv'
  <2>1. ASSUME NEW k \in always, k <= last
        PROVE  k \in Range(listed)
    <3>1. k \in present /\ k \in Keys
      BY DEF IInv, CoverInv, ListTypeOK
    <3>2. CASE k <= cursor
      BY <1>0, <1>1, <3>2 DEF IInv, CoverInv
    <3>3. CASE ~(k <= cursor)
      BY <1>0, <1>1, <2>1, <3>1, <3>3 DEF OnPage, Span, Cursors, Keys
    <3>4. QED BY <3>2, <3>3
  <2>2. always \subseteq present /\ present \subseteq ever /\ Fetched \subseteq ever
    BY DEF IInv, CoverInv
  <2>3. QED BY <1>0, <1>1, <1>2, <1>4, <2>1, <2>2 DEF CoverInv
<1>7. QED BY <1>3, <1>4, <1>5, <1>6 DEF IInv

\* A gathered page adds its objects and prefixes to what is listed.
LEMMA PageGatheredKeeps ==
    ASSUME IInv, NEW last \in Cursors, NEW truncated \in BOOLEAN,
           PageGathered(last, truncated)
    PROVE  IInv'
<1>0. /\ ListTypeOK /\ Fetching /\ mode = "delimited" /\ PageEnd(last, truncated)
      /\ UNCHANGED <<present, mode, buffered, finished, always, ever>>
  BY DEF IInv, PageGathered
<1>1. /\ cursor \in Cursors /\ cursor # NoCursor /\ buffered = <<>> /\ ~finished
      /\ listed \in Seq(Keys)
      /\ Fetched = Range(listed)
      /\ \A k \in Range(listed) : k \in Keys /\ k <= cursor
      /\ \A i \in DOMAIN listed : listed[i] \in Keys /\ listed[i] <= cursor
  BY <1>0, BeforePage
<1>2. PICK page \in Objects(last) : listed' = listed \o page
  BY DEF PageGathered
<1>3. /\ page \in Seq(Keys) /\ Range(page) = OnPage(last)
      /\ \A i, j \in DOMAIN page : i < j => page[i] < page[j]
      /\ \A k \in OnPage(last) : k \in Keys /\ k \in present /\ k > cursor /\ k <= last
  BY <1>0, <1>1, PageShape
<1>4. /\ cursor' \in Cursors \cup {NoCursor}
      /\ cursor' # NoCursor => cursor' = last
      /\ cursor <= last
      /\ \A k \in present : cursor' = NoCursor \/ k <= cursor' => k <= last
  BY <1>0, <1>1, CursorMoves DEF PageGathered
<1> DEFINE m == Len(listed)
           n == Len(page)
<1>5. /\ m \in Nat /\ DOMAIN listed = 1..m
      /\ n \in Nat /\ DOMAIN page = 1..n
      /\ \A i \in 1..n : page[i] \in OnPage(last)
  BY <1>1, <1>3, LenProperties DEF Range
<1>6. /\ listed' \in Seq(Keys) /\ DOMAIN listed' = 1..(m + n)
      /\ \A i \in 1..(m + n) : listed'[i] = IF i <= m THEN listed[i] ELSE page[i - m]
  BY <1>1, <1>2, <1>3, <1>5, ConcatProperties, LenProperties
<1>7. Ordered(listed, buffered)'
  <2>1. \A i, j \in 1..m : i < j => listed[i] < listed[j]
    BY <1>5 DEF IInv, Ordered
  <2>2. ASSUME NEW i \in 1..(m + n), NEW j \in 1..(m + n), i < j
        PROVE  listed'[i] < listed'[j]
    <3>1. CASE j <= m
      BY <1>5, <1>6, <2>1, <2>2, <3>1
    <3>2. CASE i <= m /\ ~(j <= m)
      <4>1. j - m \in 1..n /\ listed'[i] = listed[i] /\ listed'[j] = page[j - m]
        BY <1>5, <1>6, <3>2
      <4>2. listed[i] \in Keys /\ listed[i] <= cursor /\ page[j - m] \in Keys /\ page[j - m] > cursor
        BY <1>1, <1>3, <1>5, <3>2, <4>1
      <4>3. QED BY <1>1, <4>1, <4>2 DEF Keys, Cursors
    <3>3. CASE ~(i <= m)
      <4>1. /\ i - m \in 1..n /\ j - m \in 1..n /\ i - m < j - m
            /\ listed'[i] = page[i - m] /\ listed'[j] = page[j - m]
        BY <1>5, <1>6, <2>2, <3>3
      <4>2. QED BY <1>3, <1>5, <4>1
    <3>4. QED BY <3>1, <3>2, <3>3
  <2>3. DOMAIN buffered' = {}
    BY <1>0, <1>1
  <2>4. QED BY <1>6, <2>2, <2>3 DEF Ordered
<1>8. Fetched' = Range(listed) \cup OnPage(last)
  <2>1. Range(buffered') = {}
    BY <1>0, <1>1 DEF Range
  <2>2. Range(listed') \subseteq Range(listed) \cup OnPage(last)
    <3>1. \A i \in 1..(m + n) : listed'[i] \in Range(listed) \cup OnPage(last)
      <4>1. ASSUME NEW i \in 1..(m + n) PROVE listed'[i] \in Range(listed) \cup OnPage(last)
        <5>1. CASE i <= m
          BY <1>5, <1>6, <5>1 DEF Range
        <5>2. CASE ~(i <= m)
          <6>1. i - m \in 1..n
            BY <1>5, <5>2
          <6>2. QED BY <1>5, <1>6, <5>2, <6>1
        <5>3. QED BY <5>1, <5>2
      <4>2. QED BY <4>1
    <3>2. QED BY <1>6, <3>1 DEF Range
  <2>3. Range(listed) \subseteq Range(listed')
    <3>1. \A i \in 1..m : i \in 1..(m + n) /\ listed'[i] = listed[i]
      BY <1>5, <1>6
    <3>2. QED BY <1>5, <1>6, <3>1 DEF Range
  <2>4. Range(page) \subseteq Range(listed')
    <3>1. \A i \in 1..n : m + i \in 1..(m + n) /\ ~(m + i <= m) /\ (m + i) - m = i
      BY <1>5
    <3>2. \A i \in 1..n : m + i \in 1..(m + n) /\ listed'[m + i] = page[i]
      BY <1>6, <3>1
    <3>3. QED BY <1>5, <1>6, <3>2 DEF Range
  <2>5. QED BY <1>3, <2>1, <2>2, <2>3, <2>4 DEF Fetched
\* R2 names the common prefix on the page, or not: then no key under it is there.
<1> DEFINE rolled == present \cap Nested \cap Span(last)
<1>9. /\ prefixes' = prefixes + (IF rolled = {} THEN 0 ELSE 1)
      /\ prefixes \in Nat /\ prefixes <= cursor
  BY <1>0, <1>1 DEF IInv, CursorInv, ListTypeOK, PageGathered
<1>10. prefixes' \in Nat /\ prefixes <= prefixes' /\ prefixes' <= last /\ last <= MaxKey
  <2>1. rolled # {} => cursor < last
    BY <1>1 DEF Span, Cursors
  <2>2. QED BY <1>1, <1>4, <1>9, <2>1, MaxKeyAssumption DEF Cursors
<1>11. ListTypeOK'
  <2>1. prefixes' \in 0..MaxKey
    BY <1>10, MaxKeyAssumption DEF Cursors
  <2>2. state' \in {"running", "ended"}
    BY DEF PageGathered
  <2>3. QED BY <1>0, <1>4, <1>6, <2>1, <2>2 DEF ListTypeOK
<1>12. CursorInv'
  <2>1. \A k \in Fetched' : k <= last
    BY <1>1, <1>3, <1>4, <1>8 DEF Cursors, Keys
  <2>2. prefixes' <= IF cursor' = NoCursor THEN MaxKey ELSE cursor'
    BY <1>4, <1>10, MaxKeyAssumption DEF Cursors
  <2>3. QED BY <1>0, <1>1, <1>4, <2>1, <2>2 DEF PageGathered, CursorInv
<1>13. CoverInv'
  <2>1. Fetched' \subseteq ever /\ always \subseteq present /\ present \subseteq ever
    BY <1>1, <1>3, <1>8 DEF IInv, CoverInv
  <2>2. ASSUME NEW k \in always, k <= last
        PROVE  IF k \notin Nested THEN k \in Fetched' ELSE prefixes' > 0
    <3>1. k \in present /\ k \in Keys
      BY DEF IInv, CoverInv, ListTypeOK
    <3>2. CASE k <= cursor
      <4>1. IF k \notin Nested THEN k \in Range(listed) ELSE prefixes > 0
        BY <1>0, <1>1, <3>2 DEF IInv, CoverInv
      <4>2. QED BY <1>8, <1>9, <1>10, <4>1
    <3>3. CASE ~(k <= cursor)
      <4>1. k \in Span(last)
        BY <1>1, <2>2, <3>1, <3>3 DEF Span, Cursors, Keys
      <4>2. k \notin Nested => k \in OnPage(last)
        BY <3>1, <4>1 DEF OnPage
      <4>3. k \in Nested => prefixes' > 0
        BY <1>9, <3>1, <4>1
      <4>4. QED BY <1>8, <4>2, <4>3
    <3>4. QED BY <3>2, <3>3
  <2>3. QED BY <1>0, <1>4, <2>1, <2>2 DEF CoverInv
<1>14. QED BY <1>7, <1>11, <1>12, <1>13 DEF IInv

\* Every step keeps the inductive invariant.
LEMMA NextInv == IInv /\ [Next]_vars => IInv'
<1> SUFFICES ASSUME IInv, [Next]_vars PROVE IInv'
  OBVIOUS
<1>1. CASE UNCHANGED vars
  BY <1>1 DEF vars, call, IInv, ListTypeOK, Ordered, CursorInv, CoverInv, Fetched
<1>2. CASE PageArrives
  BY <1>2, PageYieldsKeeps, EmptyPageKeeps, PageGatheredKeeps DEF PageArrives
<1>3. QED BY <1>1, <1>2, BucketKeeps, YieldKeeps, EndKeeps DEF Next, Poll, Over

\* The inductive invariant holds in every reachable state.
LEMMA Invariance == Spec => []IInv
BY InitInv, NextInv, PTL DEF Spec

\* Every variable of a listing keeps its type, and the cursor is one of R2's.
THEOREM ListTypeCorrect == Spec => []ListTypeOK
<1>1. IInv => ListTypeOK
  BY DEF IInv
<1>2. QED BY <1>1, Invariance, PTL

\* A listing of a changing bucket names only keys that were there during it, each
\* once and in order (list and list_with_delimiter of both adapters).
THEOREM ListingsAreTrue == Spec => []ListingIsTrue
<1>1. IInv => ListingIsTrue
  BY DEF IInv, CoverInv, Fetched, Ordered, ListingIsTrue
<1>2. QED BY <1>1, Invariance, PTL

\* A listing that ended names every key that was there all the time, or the
\* common prefix over it, wherever R2 cuts the pages.
THEOREM ListingsAreComplete == Spec => []ListingIsComplete
<1>1. IInv => ListingIsComplete
  <2> SUFFICES ASSUME IInv, state = "ended" PROVE
        IF mode = "list"
        THEN always \subseteq Range(listed)
        ELSE /\ always \ Nested \subseteq Range(listed)
             /\ always \cap Nested # {} => prefixes > 0
    BY DEF ListingIsComplete
  <2>1. cursor = NoCursor /\ Fetched = Range(listed)
    BY DEF IInv, CursorInv, Fetched, Range
  <2>2. QED BY <2>1 DEF IInv, CoverInv
<1>2. QED BY <1>1, Invariance, PTL
=============================================================================
