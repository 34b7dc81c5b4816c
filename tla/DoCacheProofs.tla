----------------------------- MODULE DoCacheProofs -----------------------------
(***************************************************************************)
(* What the cache of do_cache.rs guarantees for any objects, any part      *)
(* sizes in use at once, any chunk of delete_multiple and any number of    *)
(* tasks: whatever is filled, deleted and cleared in any order, with       *)
(* storage calls that fail and evictions anywhere, a stored part is the    *)
(* part of its key and object, and a clean delete misses none.             *)
(***************************************************************************)
EXTENDS DoCache, SequenceTheorems, TLAPS

PartEnd(e, n) == IF (n + 1) * e.ps < e.size THEN (n + 1) * e.ps ELSE e.size

Saved(e, n) == part[EntryPrefix(e)][n] # None

\* The head is the object's size, and a part is the bytes of its number.
EntryInv ==
    /\ head \in [Prefixes -> Nat \cup {None}]
    /\ part \in [Prefixes -> [Positions -> Seq(Locations \X Nat) \cup {None}]]
    /\ \A e \in Entries :
         /\ head[EntryPrefix(e)] \in {None, e.size}
         /\ \A n \in Positions : Saved(e, n) =>
              n \in PartIds(e) /\ part[EntryPrefix(e)][n] = PartBytes(e, n)

TaskStep == [step: {"idle", "fill", "parts", "read"}, entry: Entries \cup {None},
             next: Positions]

TaskInv ==
    /\ task \in [Tasks -> TaskStep]
    /\ \A t \in Tasks : task[t].step # "idle" => task[t].entry \in Entries

DeleteSteps == {"head", "parts", "done"}

Deletions == [step: {"idle"} \cup DeleteSteps, entry: Entries \cup {None}, left: SUBSET Nat]

\* A clean delete races no task of its entry, has the parts still stored before
\* it, and has left neither head nor parts behind.
DeleteInv ==
    /\ deleting \in Deletions
    /\ alone \in BOOLEAN /\ clean \in BOOLEAN
    /\ deleting.step # "idle" =>
         deleting.entry \in Entries /\ deleting.left \subseteq PartIds(deleting.entry)
    /\ deleting.step \in DeleteSteps /\ clean =>
         /\ ~Filling(deleting.entry)
         /\ \A n \in Positions : Saved(deleting.entry, n) => n \in deleting.left
         /\ deleting.step \in {"parts", "done"} => head[EntryPrefix(deleting.entry)] = None
    /\ deleting.step = "done" => deleting.left = {}

IInv == EntryInv /\ TaskInv /\ DeleteInv

----------------------------------------------------------------------------
(* Entries and the arithmetic of their parts. *)

\* What an entry is.
LEMMA EntryShape ==
    ASSUME NEW e \in Entries
    PROVE  /\ e.location \in Locations /\ e.size \in Nat /\ e.ps \in Nat /\ e.ps > 0
           /\ EntryPrefix(e) \in Prefixes
           /\ \A n \in 0..e.size : n \in Positions
<1>1. e \in [location: Locations, size: Nat, ps: Nat \ {0}]
  BY EntriesAssumption
<1>2. EntryPrefix(e) \in Prefixes
  BY DEF Prefixes
<1>3. \A n \in 0..e.size : n \in Positions
  BY DEF Positions
<1>4. QED BY <1>1, <1>2, <1>3

\* entry_prefix (do_cache.rs:231) keeps entries apart: no two share a key.
LEMMA PrefixesDiffer ==
    ASSUME NEW d \in Entries, NEW e \in Entries, d # e
    PROVE  EntryPrefix(d) # EntryPrefix(e)
<1> SUFFICES ASSUME EntryPrefix(d) = EntryPrefix(e) PROVE FALSE
  OBVIOUS
<1>1. /\ d \in [location: Locations, size: Nat, ps: Nat \ {0}]
      /\ e \in [location: Locations, size: Nat, ps: Nat \ {0}]
  BY EntriesAssumption
<1>2. d.location = e.location /\ d.ps = e.ps
  BY DEF EntryPrefix
<1>3. d.size = e.size
  BY <1>2, EntriesAssumption
<1>4. d = e
  BY <1>1, <1>2, <1>3
<1>5. QED BY <1>4

\* Positions are numbers.
LEMMA PositionsAreNumbers == 0 \in Positions /\ \A n \in Positions : n \in Nat
<1>1. ASSUME NEW e \in Entries, NEW n \in 0..e.size PROVE n \in Nat
  BY <1>1, EntryShape
<1>2. QED BY <1>1 DEF Positions

\* The last part begins before the end: div_ceil counts no part too many.
LEMMA PartStarts ==
    ASSUME NEW e \in Entries, NEW n \in PartIds(e)
    PROVE  /\ n \in Nat /\ e.ps \in Nat /\ e.ps > 0 /\ e.size \in Nat
           /\ n * e.ps < e.size /\ n * e.ps \in Nat /\ n < e.size
<1> DEFINE ps == e.ps
           size == e.size
           a == size + ps - 1
           q == a \div ps
<1>0. /\ ps \in Nat /\ ps > 0 /\ size \in Nat
  BY EntryShape
<1>00. n \in 0..(q - 1)
  BY DEF PartIds, PartCount
<1> HIDE DEF ps, size
<1>1. a \in Nat /\ q \in Int /\ ps * q <= a
  BY <1>0
<1>2. n \in Int /\ n >= 0 /\ n <= q - 1
  <2> HIDE DEF q
  <2>2. QED BY <1>00, <1>1
<1> HIDE DEF q
<1>3. ps * n <= ps * (q - 1)
  BY <1>0, <1>1, <1>2
<1>4. ps * (q - 1) = ps * q - ps
  BY <1>0, <1>1
<1>5. ps * n <= size - 1
  <2>1. ps * n \in Int /\ ps * q \in Int
    BY <1>0, <1>1, <1>2
  <2>2. QED BY <1>0, <1>1, <1>3, <1>4, <2>1 DEF a
<1>6. n <= ps * n /\ ps * n = n * ps /\ ps * n >= 0
  BY <1>0, <1>2
<1>7. /\ n \in Nat /\ ps \in Nat /\ ps > 0 /\ size \in Nat
      /\ n * ps < size /\ n * ps \in Nat /\ n < size
  BY <1>0, <1>2, <1>5, <1>6
<1>8. QED BY <1>7 DEF ps, size

\* A function on 1..k is a sequence.
LEMMA IsSequence ==
    ASSUME NEW S, NEW k \in Nat, NEW f \in [1..k -> S]
    PROVE  f \in Seq(S) /\ Len(f) = k
OBVIOUS

\* What bytes are.
LEMMA BytesShape ==
    ASSUME NEW e \in Entries, NEW from \in Nat, NEW to \in Nat, from <= to
    PROVE  /\ Bytes(e, from, to) \in Seq(Locations \X Nat)
           /\ Len(Bytes(e, from, to)) = to - from
           /\ \A i \in 1..(to - from) : Bytes(e, from, to)[i] = <<e.location, from + i - 1>>
           /\ to <= e.size => Bytes(e, from, to) \in Seq({e.location} \X (0..(e.size - 1)))
<1> DEFINE b == Bytes(e, from, to)
           k == to - from
           l == e.location
           S == {l} \X (0..(e.size - 1))
<1>1. b = [i \in 1..k |-> <<l, from + i - 1>>] /\ k \in Nat
  BY DEF Bytes
<1>2. l \in Locations /\ e.size \in Nat
  BY EntryShape
<1>3. \A i \in 1..k : b[i] = <<l, from + i - 1>> /\ from + i - 1 \in Nat
  BY <1>1
<1> HIDE DEF l
<1>4. b \in [1..k -> Locations \X Nat]
  BY <1>1, <1>2, <1>3
<1>5. b \in Seq(Locations \X Nat) /\ Len(b) = k
  BY <1>1, <1>4, IsSequence
<1>6. ASSUME to <= e.size PROVE b \in Seq(S)
  <2>1. \A i \in 1..k : from + i - 1 \in 0..(e.size - 1)
    BY <1>2, <1>6
  <2>2. \A i \in 1..k : b[i] \in S
    BY <1>3, <2>1
  <2>3. b \in [1..k -> S]
    BY <1>1, <2>2
  <2>4. QED BY <1>1, <2>3, IsSequence
<1>7. QED BY <1>3, <1>5, <1>6 DEF l

\* A part is a piece of the object.
LEMMA PartShape ==
    ASSUME NEW e \in Entries, NEW n \in PartIds(e)
    PROVE  /\ PartBytes(e, n) \in Seq(Locations \X Nat)
           /\ PartBytes(e, n) \in Seq({e.location} \X (0..(e.size - 1)))
           /\ PartBytes(e, n) # None
           /\ Len(PartBytes(e, n)) = PartEnd(e, n) - n * e.ps
           /\ PartBytes(e, n) = Bytes(e, n * e.ps, PartEnd(e, n))
           /\ PartEnd(e, n) \in Nat /\ n * e.ps \in Nat /\ PartEnd(e, n) <= e.size
           /\ n * e.ps <= PartEnd(e, n)
           /\ n \in Positions
<1>1. /\ n \in Nat /\ e.ps \in Nat /\ e.ps > 0 /\ n * e.ps < e.size /\ n * e.ps \in Nat
      /\ n < e.size /\ e.size \in Nat
  BY PartStarts
<1>2. (n + 1) * e.ps = n * e.ps + e.ps
  BY <1>1
<1>3. PartEnd(e, n) \in Nat /\ n * e.ps <= PartEnd(e, n) /\ PartEnd(e, n) <= e.size
  BY <1>1, <1>2 DEF PartEnd
<1>4. PartBytes(e, n) = Bytes(e, n * e.ps, PartEnd(e, n))
  BY DEF PartBytes, PartEnd
<1>5. n \in Positions
  BY <1>1, EntryShape
<1>6. /\ Bytes(e, n * e.ps, PartEnd(e, n)) \in Seq(Locations \X Nat)
      /\ Bytes(e, n * e.ps, PartEnd(e, n)) \in Seq({e.location} \X (0..(e.size - 1)))
      /\ Len(Bytes(e, n * e.ps, PartEnd(e, n))) = PartEnd(e, n) - n * e.ps
  BY <1>1, <1>3, BytesShape
<1>7. QED BY <1>1, <1>3, <1>4, <1>5, <1>6, CacheNoneAssumption

\* What a piece of a sequence is.
LEMMA PieceShape ==
    ASSUME NEW S, NEW b \in Seq(S), NEW from \in Nat, NEW to \in Nat, from < to, to <= Len(b)
    PROVE  /\ SubSeq(b, from + 1, to) \in Seq(S)
           /\ Len(SubSeq(b, from + 1, to)) = to - from
           /\ \A i \in 1..(to - from) : SubSeq(b, from + 1, to)[i] = b[from + i]
<1>1. \A i \in (from + 1)..to : b[i] \in S
  BY LenProperties
<1>2. from + 1 \in Int /\ to \in Int
  OBVIOUS
<1>3. /\ SubSeq(b, from + 1, to) \in Seq(S)
      /\ Len(SubSeq(b, from + 1, to))
           = IF from + 1 <= to THEN to - (from + 1) + 1 ELSE 0
      /\ \A i \in 1..(to - (from + 1) + 1) : SubSeq(b, from + 1, to)[i] = b[from + 1 + i - 1]
  BY <1>1, <1>2, SubSeqProperties, SMTT(40)
<1>4. to - (from + 1) + 1 = to - from /\ from + 1 <= to
  OBVIOUS
<1>5. \A i \in 1..(to - from) : from + 1 + i - 1 = from + i
  <2> TAKE i \in 1..(to - from)
  <2>1. i \in Int
    OBVIOUS
  <2>2. QED BY <2>1
<1>6. QED BY <1>3, <1>4, <1>5

\* The range a reader asks of a part that holds its bytes is what it gets.
LEMMA RangeServed ==
    ASSUME NEW e \in Entries, NEW n \in PartIds(e),
           NEW from \in Nat, NEW to \in Nat, from < to, to <= Len(PartBytes(e, n))
    PROVE  CachedRange(PartBytes(e, n), from, to) = Bytes(e, n * e.ps + from, n * e.ps + to)
<1> DEFINE b == PartBytes(e, n)
           s == SubSeq(b, from + 1, to)
           start == n * e.ps
           end == PartEnd(e, n)
           l == e.location
<1>1. /\ b \in Seq(Locations \X Nat) /\ b = Bytes(e, start, end) /\ Len(b) = end - start
      /\ start \in Nat /\ end \in Nat /\ start <= end
  BY PartShape
<1>2. CachedRange(b, from, to) = s
  BY DEF CachedRange
<1>3. /\ Len(s) = to - from
      /\ \A i \in 1..(to - from) : s[i] = b[from + i]
      /\ s \in Seq(Locations \X Nat)
  BY <1>1, PieceShape
<1>4. \A i \in 1..Len(b) : b[i] = <<l, start + i - 1>>
  <2> HIDE DEF b, start, end
  <2>1. \A i \in 1..(end - start) : Bytes(e, start, end)[i] = <<e.location, start + i - 1>>
    BY <1>1, BytesShape
  <2>2. QED BY <1>1, <2>1 DEF l
<1>5. Bytes(e, start + from, start + to) = [i \in 1..(to - from) |-> <<l, start + from + i - 1>>]
  <2> HIDE DEF start
  <2>1. (start + to) - (start + from) = to - from
    BY <1>1
  <2>2. QED BY <2>1 DEF Bytes, l
<1>6. to <= Len(b)
  OBVIOUS
<1> HIDE DEF b, start, end, l, s
<1>7. \A i \in 1..(to - from) : s[i] = <<l, start + from + i - 1>>
  <2> TAKE i \in 1..(to - from)
  <2>1. from + i \in 1..Len(b) /\ start + (from + i) - 1 = start + from + i - 1
    BY <1>1, <1>6
  <2>2. b[from + i] = <<l, start + (from + i) - 1>>
    BY <1>4, <2>1
  <2>3. QED BY <1>3, <2>1, <2>2
<1>8. s = [i \in 1..(to - from) |-> s[i]]
  BY <1>3, LenProperties
<1>9. s = [i \in 1..(to - from) |-> <<l, start + from + i - 1>>]
  BY <1>7, <1>8
<1>10. QED BY <1>2, <1>5, <1>9 DEF b, start

----------------------------------------------------------------------------
(* Every step keeps the entries, the tasks and the deletion in order. *)

\* Where parts are only removed, the entries stay as they should be.
LEMMA FewerParts ==
    ASSUME EntryInv, head' \in [Prefixes -> Nat \cup {None}],
           \A e \in Entries : head'[EntryPrefix(e)] \in {None, e.size},
           part' \in [Prefixes -> [Positions -> Seq(Locations \X Nat) \cup {None}]],
           \A e \in Entries : \A n \in Positions :
               part'[EntryPrefix(e)][n] \in {None, part[EntryPrefix(e)][n]}
    PROVE  EntryInv'
BY DEF EntryInv, Saved

\* What becomes of the head of an entry concerns no other.
LEMMA HeadKeeps ==
    ASSUME EntryInv, NEW e \in Entries, NEW v \in {None, e.size},
           head' = [head EXCEPT ![EntryPrefix(e)] = v], part' = part
    PROVE  EntryInv'
<1>1. EntryPrefix(e) \in Prefixes /\ v \in Nat \cup {None}
  BY EntryShape
<1>2. head' \in [Prefixes -> Nat \cup {None}]
  BY <1>1 DEF EntryInv
<1>3. ASSUME NEW d \in Entries PROVE head'[EntryPrefix(d)] \in {None, d.size}
  <2>1. CASE d = e
    BY <1>1, <2>1 DEF EntryInv
  <2>2. CASE d # e
    <3>1. EntryPrefix(d) # EntryPrefix(e)
      BY <2>2, PrefixesDiffer
    <3>2. QED BY <1>1, <3>1 DEF EntryInv
  <2>3. QED BY <2>1, <2>2
<1>4. QED BY <1>2, <1>3 DEF EntryInv, Saved

\* A part that is saved is the part of its key; nothing else is ever stored.
LEMMA EntryKeeps == IInv /\ [Next]_vars => EntryInv'
<1> SUFFICES ASSUME IInv, [Next]_vars PROVE EntryInv'
  OBVIOUS
<1>0. EntryInv /\ TaskInv /\ DeleteInv
  BY DEF IInv
<1>1. CASE UNCHANGED <<head, part>>
  BY <1>0, <1>1 DEF EntryInv, Saved
<1>2. ASSUME NEW t \in Tasks, SaveHead(t)
      PROVE  EntryInv'
  <2>1. PICK e \in Entries : e = task[t].entry
    BY <1>0, <1>2 DEF SaveHead, TaskInv
  <2>2. part' = part /\ (head' = head \/ head' = [head EXCEPT ![EntryPrefix(e)] = e.size])
    BY <1>2, <2>1 DEF SaveHead
  <2>3. QED BY <1>0, <1>1, <2>2, HeadKeeps
<1>3. ASSUME NEW t \in Tasks, NEW n \in Positions, SavePart(t, n)
      PROVE  EntryInv'
  <2>1. PICK e \in Entries : e = task[t].entry
    BY <1>0, <1>3 DEF SavePart, TaskInv
  <2>2. /\ n \in PartIds(e) /\ head' = head
        /\ part' = part \/ part' = [part EXCEPT ![EntryPrefix(e)][n] = PartBytes(e, n)]
    BY <1>3, <2>1 DEF SavePart
  <2>3. CASE part' = part
    BY <1>1, <2>2, <2>3
  <2>4. CASE part' = [part EXCEPT ![EntryPrefix(e)][n] = PartBytes(e, n)]
    <3>1. PartBytes(e, n) \in Seq(Locations \X Nat) /\ EntryPrefix(e) \in Prefixes
      BY <2>2, PartShape, EntryShape
    <3>2. part' \in [Prefixes -> [Positions -> Seq(Locations \X Nat) \cup {None}]]
      BY <1>0, <2>4, <3>1 DEF EntryInv
    <3>3. ASSUME NEW d \in Entries, NEW m \in Positions
          PROVE  \/ d = e /\ m = n /\ part'[EntryPrefix(d)][m] = PartBytes(e, n)
                 \/ part'[EntryPrefix(d)][m] = part[EntryPrefix(d)][m]
      <4>1. CASE d = e
        BY <1>0, <2>4, <3>1, <4>1 DEF EntryInv
      <4>2. CASE d # e
        <5>1. EntryPrefix(d) # EntryPrefix(e) /\ EntryPrefix(d) \in Prefixes
          BY <4>2, PrefixesDiffer, EntryShape
        <5>2. QED BY <1>0, <2>4, <3>1, <5>1 DEF EntryInv
      <4>3. QED BY <4>1, <4>2
    <3>4. QED BY <1>0, <2>2, <3>2, <3>3 DEF EntryInv, Saved
  <2>5. QED BY <2>2, <2>3, <2>4
<1>4. CASE DeleteHead
  <2>1. PICK e \in Entries : e = deleting.entry
    BY <1>0, <1>4 DEF DeleteHead, DeleteInv
  <2>2. part' = part /\ (head' = head \/ head' = [head EXCEPT ![EntryPrefix(e)] = None])
    BY <1>4, <2>1 DEF DeleteHead
  <2>3. QED BY <1>0, <1>1, <2>2, HeadKeeps
<1>5. CASE DeleteChunk
  <2>1. PICK e \in Entries : e = deleting.entry
    BY <1>0, <1>5 DEF DeleteChunk, DeleteInv
  <2> DEFINE x == EntryPrefix(e)
             chunk == FirstChunk(deleting.left)
  <2>2. CASE part' = part
    BY <1>1, <1>5, <2>2 DEF DeleteChunk
  <2>3. CASE part' = [part EXCEPT ![x] =
                       [n \in DOMAIN part[x] |-> IF n \in chunk THEN None ELSE part[x][n]]]
    <3>1. x \in Prefixes /\ head' = head
      BY <1>5, EntryShape DEF DeleteChunk
    <3> HIDE DEF chunk, x
    <3>2. DOMAIN part[x] = Positions
      BY <1>0, <3>1 DEF EntryInv
    <3>3. [n \in DOMAIN part[x] |-> IF n \in chunk THEN None ELSE part[x][n]]
            \in [Positions -> Seq(Locations \X Nat) \cup {None}]
      BY <1>0, <3>1, <3>2 DEF EntryInv
    <3>4. part' \in [Prefixes -> [Positions -> Seq(Locations \X Nat) \cup {None}]]
      BY <1>0, <2>3, <3>1, <3>3 DEF EntryInv
    <3>5. ASSUME NEW y \in Prefixes, NEW m \in Positions
          PROVE  part'[y][m] \in {None, part[y][m]}
      BY <1>0, <2>3, <3>1, <3>2 DEF EntryInv
    <3>6. \A d \in Entries : EntryPrefix(d) \in Prefixes
      BY EntryShape
    <3>7. QED BY <1>0, <3>1, <3>4, <3>5, <3>6, FewerParts DEF EntryInv
  <2>4. QED BY <1>5, <2>1, <2>2, <2>3 DEF DeleteChunk
<1>6. CASE Clear
  <2>1. /\ head' = [x \in Prefixes |-> None]
        /\ part' = [x \in Prefixes |-> [n \in Positions |-> None]]
    BY <1>6 DEF Clear
  <2>2. \A e \in Entries : EntryPrefix(e) \in Prefixes
    BY EntryShape
  <2>3. QED BY <2>1, <2>2 DEF EntryInv, Saved
<1>7. QED
  BY <1>1, <1>2, <1>3, <1>4, <1>5, <1>6
     DEF Next, ReadHead, ReadPart, Fails, DeleteReadsHead, DeleteEnds, DeleteReturns,
         Evict, vars

\* Where a task goes.
LEMMA GoesKeeps ==
    ASSUME TaskInv, NEW t \in Tasks, NEW step \in {"fill", "parts", "read"},
           NEW e \in Entries, NEW n \in Positions, Goes(t, step, e, n) \/ Ends(t)
    PROVE  TaskInv'
<1>1. PICK k \in TaskStep : /\ task' = [task EXCEPT ![t] = k]
                            /\ k.step # "idle" => k.entry \in Entries
  <2>1. CASE Goes(t, step, e, n)
    <3>1. [step |-> step, entry |-> e, next |-> n] \in TaskStep
      BY DEF TaskStep
    <3>2. QED BY <2>1, <3>1 DEF Goes
  <2>2. CASE Ends(t)
    <3>1. Idle \in TaskStep /\ Idle.step = "idle"
      BY PositionsAreNumbers DEF Idle, TaskStep
    <3>2. QED BY <2>2, <3>1 DEF Ends
  <2>3. QED BY <2>1, <2>2
<1>2. task' \in [Tasks -> TaskStep]
  BY <1>1 DEF TaskInv
<1>3. \A u \in Tasks : task'[u].step # "idle" => task'[u].entry \in Entries
  BY <1>1 DEF TaskInv
<1>4. QED BY <1>2, <1>3 DEF TaskInv

\* A task is of an entry in use, wherever it goes.
LEMMA TaskKeeps == IInv /\ [Next]_vars => TaskInv'
<1> SUFFICES ASSUME IInv, [Next]_vars PROVE TaskInv'
  OBVIOUS
<1>0. EntryInv /\ TaskInv /\ 0 \in Positions
  BY PositionsAreNumbers DEF IInv
<1>1. CASE UNCHANGED task
  BY <1>0, <1>1 DEF TaskInv
<1>2. ASSUME NEW t \in Tasks, NEW e \in Entries, ReadHead(t, e)
      PROVE  TaskInv'
  <2>1. Goes(t, "read", e, 0) \/ Goes(t, "fill", e, 0)
    BY <1>2 DEF ReadHead
  <2>2. QED BY <1>0, <2>1, GoesKeeps
<1>3. ASSUME NEW t \in Tasks, SaveHead(t) \/ Fails(t)
      PROVE  TaskInv'
  <2>1. PICK e \in Entries : e = task[t].entry
    BY <1>0, <1>3 DEF SaveHead, Fails, TaskInv
  <2>2. Goes(t, "parts", e, 0) \/ Ends(t)
    BY <1>3, <2>1 DEF SaveHead, Fails
  <2>3. QED BY <1>0, <2>2, GoesKeeps
<1>4. ASSUME NEW t \in Tasks, NEW n \in Positions, SavePart(t, n) \/ ReadPart(t, n)
      PROVE  TaskInv'
  <2>1. PICK e \in Entries : e = task[t].entry
    BY <1>0, <1>4 DEF SavePart, ReadPart, TaskInv
  <2>2. \/ n + 1 \in PartIds(e) /\ Goes(t, "parts", e, n + 1)
        \/ Goes(t, "parts", e, n) \/ Ends(t)
    BY <1>4, <2>1 DEF SavePart, ReadPart
  <2>3. n + 1 \in PartIds(e) => n + 1 \in Positions
    BY PartShape
  <2>4. QED BY <1>0, <2>2, <2>3, GoesKeeps
<1>5. CASE Evict
  <2>1. Idle \in TaskStep /\ Idle.step = "idle"
    BY <1>0 DEF Idle, TaskStep
  <2>2. task' = [t \in Tasks |-> Idle]
    BY <1>5 DEF Evict
  <2>3. QED BY <2>1, <2>2 DEF TaskInv
<1>6. QED
  BY <1>1, <1>2, <1>3, <1>4, <1>5
     DEF Next, DeleteReadsHead, DeleteHead, DeleteChunk, DeleteEnds, DeleteReturns,
         Clear, vars

\* A task that goes on with its entry, or ends, fills no other.
LEMMA FillsNoOther ==
    ASSUME TaskInv, NEW t \in Tasks, NEW step, NEW n,
           Goes(t, step, task[t].entry, n) \/ Ends(t), NEW e \in Entries, Filling(e)'
    PROVE  Filling(e)
<1>1. PICK u \in Tasks : task'[u].entry = e
  BY DEF Filling
<1>2. Idle.entry # e
  BY CacheNoneAssumption DEF Idle
<1>3. task'[u].entry = task[u].entry \/ task'[u].entry = Idle.entry
  <2>1. DOMAIN task = Tasks
    BY DEF TaskInv
  <2>2. CASE Goes(t, step, task[t].entry, n)
    BY <2>1, <2>2 DEF Goes
  <2>3. CASE Ends(t)
    <3>1. task' = [task EXCEPT ![t] = Idle]
      BY <2>3 DEF Ends
    <3>2. task'[u] = Idle \/ task'[u] = task[u]
      BY <2>1, <3>1
    <3>3. QED BY <3>2
  <2>4. QED BY <2>2, <2>3
<1>4. QED BY <1>1, <1>2, <1>3 DEF Filling

\* Nothing that the tasks of other entries do disturbs a clean deletion.
LEMMA TasksLeave ==
    ASSUME DeleteInv, UNCHANGED deleting, alone' \in BOOLEAN,
           clean' \in BOOLEAN, clean' => clean,
           deleting.step \in DeleteSteps /\ clean' =>
             /\ ~Filling(deleting.entry)'
             /\ \A n \in Positions :
                  Saved(deleting.entry, n)' => Saved(deleting.entry, n)
             /\ head'[EntryPrefix(deleting.entry)] = head[EntryPrefix(deleting.entry)]
    PROVE  DeleteInv'
<1>1. EntryPrefix(deleting.entry)' = EntryPrefix(deleting.entry)
  BY DEF EntryPrefix
<1>2. QED BY <1>1 DEF DeleteInv

\* A deletion that meets no task and no error removes what it found.
LEMMA DeleteKeeps == IInv /\ [Next]_vars => DeleteInv'
<1> SUFFICES ASSUME IInv, [Next]_vars PROVE DeleteInv'
  OBVIOUS
<1>0. EntryInv /\ TaskInv /\ DeleteInv
  BY DEF IInv
<1>1. CASE UNCHANGED vars
  BY <1>0, <1>1 DEF DeleteInv, Filling, Saved, vars, EntryPrefix
<1>2. ASSUME NEW t \in Tasks, NEW e \in Entries, ReadHead(t, e)
      PROVE  DeleteInv'
  <2>1. /\ UNCHANGED <<deleting, head, part>>
        /\ clean' = (clean /\ deleting.entry # e)
        /\ alone' = (alone /\ deleting.entry # e)
        /\ \E step, n : Goes(t, step, e, n)
    BY <1>2 DEF ReadHead, Spoils
  <2>2. ASSUME deleting.entry # e, NEW d \in Entries, d = deleting.entry, Filling(d)'
        PROVE  Filling(d)
    <3>1. PICK u \in Tasks : task'[u].entry = d
      BY <2>2 DEF Filling
    <3>2. task'[u].entry = task[u].entry \/ task'[u].entry = e
      BY <1>0, <2>1 DEF TaskInv, Goes
    <3>3. QED BY <2>2, <3>1, <3>2 DEF Filling
  <2>3. /\ clean \in BOOLEAN /\ alone \in BOOLEAN
        /\ deleting.step \in DeleteSteps => deleting.entry \in Entries
    BY <1>0 DEF DeleteInv, DeleteSteps
  <2>4. clean' \in BOOLEAN /\ (clean' => clean) /\ alone' \in BOOLEAN
    BY <2>1, <2>3
  <2>5. deleting.step \in DeleteSteps /\ clean => ~Filling(deleting.entry)
    BY <1>0 DEF DeleteInv
  <2>6. deleting.step \in DeleteSteps /\ clean' => ~Filling(deleting.entry)'
    BY <2>1, <2>2, <2>3, <2>5
  <2>7. QED BY <1>0, <2>1, <2>4, <2>6, TasksLeave DEF Saved, EntryPrefix
<1>3. ASSUME NEW t \in Tasks,
             \/ SaveHead(t) \/ Fails(t)
             \/ \E n \in Positions : SavePart(t, n) \/ ReadPart(t, n)
      PROVE  DeleteInv'
  <2>1. PICK e \in Entries : e = task[t].entry
    BY <1>0, <1>3 DEF SaveHead, Fails, SavePart, ReadPart, TaskInv
  <2>2. /\ UNCHANGED <<deleting, alone, clean>>
        /\ \E step, n : Goes(t, step, task[t].entry, n) \/ Ends(t)
        /\ head' = head \/ head' = [head EXCEPT ![EntryPrefix(e)] = e.size]
        /\ \/ part' = part
           \/ \E n \in Positions :
                part' = [part EXCEPT ![EntryPrefix(e)][n] = PartBytes(e, n)]
    BY <1>3, <2>1 DEF SaveHead, Fails, SavePart, ReadPart
  <2>3. ASSUME NEW d \in Entries, d # e
        PROVE  /\ head'[EntryPrefix(d)] = head[EntryPrefix(d)]
               /\ part'[EntryPrefix(d)] = part[EntryPrefix(d)]
    <3>1. EntryPrefix(d) # EntryPrefix(e) /\ EntryPrefix(d) \in Prefixes
      BY <2>3, PrefixesDiffer, EntryShape
    <3>2. QED BY <1>0, <2>2, <3>1 DEF EntryInv
  <2>4. ASSUME deleting.step \in DeleteSteps, clean
        PROVE  deleting.entry \in Entries /\ ~Filling(deleting.entry) /\ deleting.entry # e
    BY <1>0, <2>1, <2>4 DEF DeleteInv, Filling, DeleteSteps
  <2>5. ASSUME deleting.step \in DeleteSteps, clean
        PROVE  ~Filling(deleting.entry)'
    <3>1. PICK d \in Entries : d = deleting.entry
      BY <2>4, <2>5
    <3>2. ~Filling(d)'
      BY <1>0, <2>2, <2>4, <2>5, <3>1, FillsNoOther
    <3>3. QED BY <2>2, <3>1, <3>2 DEF Filling
  <2>6. ASSUME deleting.step \in DeleteSteps, clean
        PROVE  /\ head'[EntryPrefix(deleting.entry)] = head[EntryPrefix(deleting.entry)]
               /\ \A n \in Positions : Saved(deleting.entry, n)' => Saved(deleting.entry, n)
    <3>1. PICK d \in Entries : d = deleting.entry /\ d # e
      BY <2>4, <2>6
    <3>2. /\ head'[EntryPrefix(d)] = head[EntryPrefix(d)]
          /\ part'[EntryPrefix(d)] = part[EntryPrefix(d)]
      BY <2>3, <3>1
    <3>3. \A n \in Positions : Saved(d, n)' => Saved(d, n)
      BY <3>2 DEF Saved
    <3>4. QED BY <2>2, <3>1, <3>2, <3>3 DEF Saved, EntryPrefix
  <2>7. clean \in BOOLEAN /\ alone \in BOOLEAN
    BY <1>0 DEF DeleteInv
  <2>8. QED BY <1>0, <2>2, <2>5, <2>6, <2>7, TasksLeave
<1>4. ASSUME NEW e \in Entries, DeleteReadsHead(e)
      PROVE  DeleteInv'
  <2>1. UNCHANGED <<head, part, task>> /\ alone' = ~Filling(e)
    BY <1>4 DEF DeleteReadsHead
  <2>2. alone' \in BOOLEAN
    <3>1. alone' = TRUE \/ alone' = FALSE
      BY <2>1
    <3>2. QED BY <3>1
  <2>3. EntryPrefix(e) \in Prefixes /\ head[EntryPrefix(e)] \in {None, e.size}
    BY <1>0, EntryShape DEF EntryInv
  <2>4. PICK left \in SUBSET Nat :
               /\ deleting' = [step |-> "head", entry |-> e, left |-> left]
               /\ left \subseteq PartIds(e)
               /\ clean' \in BOOLEAN
               /\ clean' => alone'
               /\ clean' => \A n \in Positions : Saved(e, n) => n \in left
    <3>1. CASE /\ head[EntryPrefix(e)] # None
               /\ deleting' = [step |-> "head", entry |-> e,
                               left |-> PartKeys(head[EntryPrefix(e)], e.ps)]
               /\ clean' = alone'
      <4>1. PartKeys(head[EntryPrefix(e)], e.ps) = PartIds(e)
        BY <2>3, <3>1 DEF PartKeys, PartIds
      <4>2. PartIds(e) \in SUBSET Nat
        BY PartStarts
      <4>3. \A n \in Positions : Saved(e, n) => n \in PartIds(e)
        BY <1>0 DEF EntryInv
      <4>4. QED BY <2>2, <3>1, <4>1, <4>2, <4>3
    <3>2. CASE /\ deleting' = [step |-> "head", entry |-> e, left |-> {}]
               /\ clean' = (alone' /\ head[EntryPrefix(e)] = None /\ ~PartsWithoutHead(e))
      <4>1. DOMAIN part[EntryPrefix(e)] = Positions
        BY <1>0, <2>3 DEF EntryInv
      <4>2. clean' => \A n \in Positions : ~Saved(e, n)
        BY <3>2, <4>1 DEF PartsWithoutHead, Saved
      <4>3. clean' \in BOOLEAN
        <5>1. clean' = TRUE \/ clean' = FALSE
          BY <3>2
        <5>2. QED BY <5>1
      <4>4. clean' => alone'
        BY <3>2
      <4>5. clean' => \A n \in Positions : Saved(e, n) => n \in {}
        BY <4>2
      <4>6. {} \in SUBSET Nat /\ {} \subseteq PartIds(e)
        OBVIOUS
      <4>7. deleting' = [step |-> "head", entry |-> e, left |-> {}]
        BY <3>2
      <4>8. QED BY <4>3, <4>4, <4>5, <4>6, <4>7
    <3>3. QED BY <1>4, <3>1, <3>2 DEF DeleteReadsHead
  <2>5. /\ deleting' \in Deletions
        /\ deleting'.step = "head" /\ deleting'.entry = e /\ deleting'.left = left
    BY <2>4 DEF DeleteSteps, Deletions
  <2>6. clean' => ~Filling(e)' /\ \A n \in Positions : Saved(e, n)' => n \in left
    BY <2>1, <2>4 DEF Filling, Saved
  <2>7. QED BY <2>2, <2>4, <2>5, <2>6 DEF DeleteInv, Filling, Saved
<1>5. CASE DeleteHead
  <2>1. PICK e \in Entries : e = deleting.entry
    BY <1>0, <1>5 DEF DeleteHead, DeleteInv
  <2>2. /\ deleting.step = "head" /\ UNCHANGED <<part, task, alone>>
        /\ deleting' = [deleting EXCEPT !.step = "parts"]
        /\ \/ head' = [head EXCEPT ![EntryPrefix(e)] = None] /\ clean' = clean
           \/ clean' = FALSE
    BY <1>5, <2>1 DEF DeleteHead
  <2>3. /\ deleting'.step = "parts" /\ deleting'.entry = e /\ deleting'.left = deleting.left
        /\ deleting' \in Deletions
    BY <1>0, <2>1, <2>2 DEF DeleteInv, DeleteSteps, Deletions
  <2>4. clean' => clean /\ head'[EntryPrefix(e)] = None
    BY <1>0, <2>2, EntryShape DEF EntryInv
  <2>5. clean' \in BOOLEAN /\ alone' \in BOOLEAN
    BY <1>0, <2>2 DEF DeleteInv
  <2>6. clean => ~Filling(e)' /\ \A n \in Positions : Saved(e, n)' => n \in deleting.left
    BY <1>0, <2>1, <2>2 DEF DeleteInv, DeleteSteps, Filling, Saved
  <2>7. deleting.left \subseteq PartIds(e)
    BY <1>0, <2>1, <2>2 DEF DeleteInv
  <2>8. QED BY <2>3, <2>4, <2>5, <2>6, <2>7 DEF DeleteInv, Filling, Saved, EntryPrefix
<1>6. CASE DeleteChunk
  <2>1. PICK e \in Entries : e = deleting.entry
    BY <1>0, <1>6 DEF DeleteChunk, DeleteInv
  <2> DEFINE x == EntryPrefix(e)
             chunk == FirstChunk(deleting.left)
  <2>2. /\ deleting.step = "parts" /\ UNCHANGED <<head, task, alone>>
        /\ deleting' = [deleting EXCEPT !.left = deleting.left \ chunk]
        /\ \/ /\ part' = [part EXCEPT ![x] =
                    [n \in DOMAIN part[x] |-> IF n \in chunk THEN None ELSE part[x][n]]]
              /\ clean' = clean
           \/ clean' = FALSE
    BY <1>6, <2>1 DEF DeleteChunk
  <2> HIDE DEF chunk
  <2>3. /\ deleting'.step = "parts" /\ deleting'.entry = e
        /\ deleting'.left = deleting.left \ chunk
        /\ deleting' \in Deletions
    BY <1>0, <2>1, <2>2 DEF DeleteInv, Deletions
  <2>4. clean' \in BOOLEAN /\ (clean' => clean) /\ alone' \in BOOLEAN
    <3>1. clean \in BOOLEAN /\ alone \in BOOLEAN
      BY <1>0 DEF DeleteInv
    <3>2. clean' = clean \/ clean' = FALSE
      BY <2>2
    <3>3. CASE clean' = clean
      BY <2>2, <3>1, <3>3
    <3>4. CASE clean' = FALSE
      BY <2>2, <3>1, <3>4
    <3>5. QED BY <3>2, <3>3, <3>4
  <2>5. ASSUME clean'
        PROVE  \A n \in Positions : part'[x][n] # None => n \in deleting.left \ chunk
    <3>1. x \in Prefixes
      BY EntryShape
    <3>2. DOMAIN part[x] = Positions /\ DOMAIN part = Prefixes
      BY <1>0, <3>1 DEF EntryInv
    <3>3. \A n \in Positions : part'[x][n] = (IF n \in chunk THEN None ELSE part[x][n])
      <4>1. part' = [part EXCEPT ![x] =
              [n \in DOMAIN part[x] |-> IF n \in chunk THEN None ELSE part[x][n]]]
        BY <2>2, <2>5
      <4> HIDE DEF x
      <4>2. part'[x] = [n \in Positions |-> IF n \in chunk THEN None ELSE part[x][n]]
        BY <3>1, <3>2, <4>1
      <4>3. QED BY <4>2
    <3>4. \A n \in Positions : Saved(e, n) => n \in deleting.left
      BY <1>0, <2>1, <2>2, <2>4, <2>5 DEF DeleteInv, DeleteSteps
    <3>5. QED BY <3>3, <3>4 DEF Saved
  <2>6. clean => ~Filling(e)' /\ head'[x] = None
    BY <1>0, <2>1, <2>2 DEF DeleteInv, DeleteSteps, Filling
  <2>7. deleting.left \subseteq PartIds(e)
    BY <1>0, <2>1, <2>2 DEF DeleteInv
  <2>8. QED BY <2>3, <2>4, <2>5, <2>6, <2>7 DEF DeleteInv, Saved, Filling, EntryPrefix
<1>7. CASE DeleteEnds
  <2>1. PICK e \in Entries : e = deleting.entry
    BY <1>0, <1>7 DEF DeleteEnds, DeleteInv
  <2>2. /\ deleting.step = "parts" /\ UNCHANGED <<head, part, task, alone, clean>>
        /\ deleting' = [deleting EXCEPT !.step = "done"] /\ deleting.left = {}
    BY <1>7 DEF DeleteEnds
  <2>3. /\ deleting'.step = "done" /\ deleting'.entry = e /\ deleting'.left = {}
        /\ deleting' \in Deletions
    BY <1>0, <2>1, <2>2 DEF DeleteInv, DeleteSteps, Deletions
  <2>4. clean => /\ ~Filling(e)' /\ head'[EntryPrefix(e)] = None
                 /\ \A n \in Positions : Saved(e, n)' => n \in {}
    BY <1>0, <2>1, <2>2 DEF DeleteInv, DeleteSteps, Filling, Saved
  <2>5. QED BY <1>0, <2>2, <2>3, <2>4 DEF DeleteInv, Filling, Saved, EntryPrefix
<1>8. CASE DeleteReturns \/ Evict
  <2>1. deleting' = NoDeletion /\ alone' = FALSE /\ clean' = FALSE
    BY <1>8 DEF DeleteReturns, Evict
  <2>2. QED BY <2>1 DEF DeleteInv, DeleteSteps, NoDeletion, Deletions
<1>9. CASE Clear
  <2>1. /\ UNCHANGED <<task, deleting, alone, clean>>
        /\ \A x \in Prefixes : head'[x] = None /\ \A n \in Positions : part'[x][n] = None
    BY <1>9 DEF Clear
  <2>2. \A e \in Entries : EntryPrefix(e) \in Prefixes
    BY EntryShape
  <2>3. deleting.step \in DeleteSteps => deleting.entry \in Entries
    BY <1>0 DEF DeleteInv, DeleteSteps
  <2>4. QED BY <1>0, <2>1, <2>2, <2>3 DEF DeleteInv, Filling, Saved, EntryPrefix
<1>10. QED
  BY <1>1, <1>2, <1>3, <1>4, <1>5, <1>6, <1>7, <1>8, <1>9 DEF Next

----------------------------------------------------------------------------
\* The inductive invariant holds of the empty storage.
LEMMA InitInv == Init => IInv
<1> SUFFICES ASSUME Init PROVE IInv
  OBVIOUS
<1> USE DEF Init
<1>1. EntryInv
  BY EntryShape DEF EntryInv, Saved
<1>2. TaskInv
  BY PositionsAreNumbers DEF TaskInv, TaskStep, Idle
<1>3. DeleteInv
  BY DEF DeleteInv, DeleteSteps, NoDeletion, Deletions
<1>4. QED BY <1>1, <1>2, <1>3 DEF IInv

\* The inductive invariant holds in every reachable state.
LEMMA Invariance == Spec => []IInv
<1>1. IInv /\ [Next]_vars => IInv'
  BY EntryKeeps, TaskKeeps, DeleteKeeps DEF IInv
<1>2. QED BY <1>1, InitInv, PTL DEF Spec

\* Every variable of the cache keeps its type: no head under an entry's keys is
\* of another object's size, and no part is stored under a number its object
\* does not have.
THEOREM CacheTypeCorrect == Spec => []CacheTypeOK
<1>1. IInv => CacheTypeOK
  <2> SUFFICES ASSUME IInv PROVE CacheTypeOK
    OBVIOUS
  <2>1. ASSUME NEW e \in Entries, NEW n \in DOMAIN part[EntryPrefix(e)],
               part[EntryPrefix(e)][n] # None
        PROVE  /\ n \in PartIds(e)
               /\ part[EntryPrefix(e)][n] \in Seq({e.location} \X (0..(e.size - 1)))
    <3>1. n \in Positions
      BY <2>1, EntryShape DEF IInv, EntryInv
    <3>2. n \in PartIds(e) /\ part[EntryPrefix(e)][n] = PartBytes(e, n)
      BY <2>1, <3>1 DEF IInv, EntryInv, Saved
    <3>3. QED BY <3>2, PartShape
  <2>2. /\ head \in [Prefixes -> Nat \cup {None}] /\ DOMAIN part = Prefixes
        /\ \A e \in Entries : head[EntryPrefix(e)] \in {None, e.size}
    BY DEF IInv, EntryInv
  <2>3. task \in [Tasks -> [step: {"idle", "fill", "parts", "read"},
                            entry: Entries \cup {None}, next: Positions]]
    BY DEF IInv, TaskInv, TaskStep
  <2>4. /\ deleting.step \in {"idle", "head", "parts", "done"}
        /\ deleting.step # "idle" => deleting.left \subseteq PartIds(deleting.entry)
        /\ alone \in BOOLEAN /\ clean \in BOOLEAN
    BY DEF IInv, DeleteInv, DeleteSteps, Deletions
  <2>5. QED BY <2>1, <2>2, <2>3, <2>4 DEF CacheTypeOK
<1>2. QED BY <1>1, Invariance, PTL

\* A cached read (do_cache.rs:130) gives the bytes it was asked for, whatever is
\* filled, deleted, cleared and lost around it, however parts are cut and
\* whatever other objects are cached.
THEOREM CachedReadsAreTrue == Spec => []ServedIsAsked
<1>1. IInv => ServedIsAsked
  <2> SUFFICES ASSUME IInv, NEW e \in Entries, NEW n \in PartIds(e),
                      NEW from \in Positions, NEW to \in Positions,
                      part[EntryPrefix(e)][n] # None,
                      from < to, to <= Len(PartBytes(e, n))
               PROVE  Served(e, n, from, to) = Bytes(e, n * e.ps + from, n * e.ps + to)
    BY DEF ServedIsAsked
  <2>1. n \in Positions
    BY PartShape
  <2>2. part[EntryPrefix(e)][n] = PartBytes(e, n)
    BY <2>1 DEF IInv, EntryInv, Saved
  <2>3. from \in Nat /\ to \in Nat
    BY PositionsAreNumbers
  <2>4. QED BY <2>2, <2>3, RangeServed DEF Served
<1>2. QED BY <1>1, Invariance, PTL

\* A delete (do_cache.rs:195) that meets no error and no fill leaves nothing of
\* its entry: the parts it counts from the head are all there are.
THEOREM CleanDeletesAreWhole == Spec => []CleanDeleteLeavesNothing
<1>1. IInv => CleanDeleteLeavesNothing
  <2> SUFFICES ASSUME IInv, deleting.step = "done", clean PROVE Nothing(deleting.entry)
    BY DEF CleanDeleteLeavesNothing
  <2>1. PICK e \in Entries : e = deleting.entry
    BY DEF IInv, DeleteInv
  <2>2. /\ deleting.left = {} /\ head[EntryPrefix(e)] = None
        /\ \A n \in Positions : ~Saved(e, n)
    BY <2>1 DEF IInv, DeleteInv, DeleteSteps
  <2>3. DOMAIN part[EntryPrefix(e)] = Positions
    BY EntryShape DEF IInv, EntryInv
  <2>4. QED BY <2>1, <2>2, <2>3 DEF Nothing, Saved
<1>2. QED BY <1>1, Invariance, PTL
================================================================================
