------------------------- MODULE SlateDbObjectProofs -------------------------
(***************************************************************************)
(* What SlateDbObject guarantees for any number of requests, clients and   *)
(* names: its types, the single writer, that logs only grow, that a        *)
(* database's log holds acknowledged writes forever.  The first part is    *)
(* about the engine of SlateDb alone; the second adds what the object's    *)
(* mutex, its name check and its durable puts contribute.                  *)
(***************************************************************************)
EXTENDS SlateDbObject, SequenceTheorems, TLAPS

(***************************************************************************)
(* The engine: every step appends to a log or leaves it alone, and         *)
(* preserves EngineInv.                                                    *)
(***************************************************************************)

\* Any step of any Db, whether its own task takes it or a request does.
EngineAny(d) ==
    \/ \E n \in Names : BuildStart(d, n)
    \/ \E w \in Writes : Accept(d, w)
    \/ CloseStart(d)
    \/ EngineStep(d)

\* One new object, written by d, at the end of the log of n.
Appends(n, d, ws) ==
    wal' = [wal EXCEPT ![n] = Append(wal[n], [by |-> d, writes |-> ws])]

\* A create at the first free number appends to the log (r2_store.rs:482).
LEMMA StoredAppends ==
    ASSUME EngineTypeOK, NEW n \in Names, NEW d \in Requests,
           NEW ws \in SUBSET Writes
    PROVE  Stored(n, Len(wal[n]) + 1, d, ws)
             = [wal EXCEPT ![n] = Append(wal[n], [by |-> d, writes |-> ws])]
<1> DEFINE s == wal[n]
           e == [by |-> d, writes |-> ws]
           t == [j \in DOMAIN s \cup {Len(s) + 1} |->
                    IF j = Len(s) + 1 THEN e ELSE s[j]]
<1>1. s \in Seq(Entry) /\ e \in Entry
  BY DEF EngineTypeOK, Entry
<1>2. DOMAIN s \cup {Len(s) + 1} = 1..(Len(s) + 1)
  BY <1>1, LenProperties
<1>3. t = Append(s, e)
  <2>1. t = [j \in 1..(Len(s) + 1) |-> IF j = Len(s) + 1 THEN e ELSE s[j]]
    BY <1>2
  <2>2. Append(s, e) = [j \in 1..(Len(s) + 1) |-> IF j = Len(s) + 1 THEN e ELSE s[j]]
    BY <1>1, LenProperties, SMT
  <2>3. QED BY <2>1, <2>2
<1>4. QED BY <1>3 DEF Stored

\* The same of a step that stores.
LEMMA StoringAppends ==
    ASSUME EngineTypeOK, NEW n, NEW d \in Requests, NEW ws,
           n \in Names, ws \subseteq Writes,
           wal' = Stored(n, Len(wal[n]) + 1, d, ws)
    PROVE  Appends(n, d, ws)
<1>1. ws \in SUBSET Writes
  OBVIOUS
<1>2. QED BY <1>1, StoredAppends DEF Appends

\* What appending does to the logs: they keep their objects, and the log of n
\* gains one.
Appended(n, d, ws) ==
    /\ wal' \in [Names -> Seq(Entry)]
    /\ Len(wal[n]) \in Nat
    /\ DOMAIN wal[n] = 1..Len(wal[n])
    /\ DOMAIN wal'[n] = DOMAIN wal[n] \cup {Len(wal[n]) + 1}
    /\ wal'[n][Len(wal[n]) + 1] = [by |-> d, writes |-> ws]
    /\ \A m \in Names : \A i \in DOMAIN wal[m] :
         i \in DOMAIN wal'[m] /\ wal'[m][i] = wal[m][i]
    /\ \A m \in Names \ {n} : wal'[m] = wal[m]

\* Appending to a log has these effects.
LEMMA AppendShape ==
    ASSUME EngineTypeOK, NEW n \in Names, NEW d \in Requests,
           NEW ws \in SUBSET Writes, Appends(n, d, ws)
    PROVE  Appended(n, d, ws)
<1> DEFINE s == wal[n]
           e == [by |-> d, writes |-> ws]
<1>1. s \in Seq(Entry) /\ e \in Entry
  BY DEF EngineTypeOK, Entry
<1>2. /\ Append(s, e) \in Seq(Entry)
      /\ Len(Append(s, e)) = Len(s) + 1
      /\ \A i \in 1..Len(s) : Append(s, e)[i] = s[i]
      /\ Append(s, e)[Len(s) + 1] = e
  BY <1>1, AppendProperties
<1>3. /\ Len(s) \in Nat
      /\ DOMAIN s = 1..Len(s)
      /\ DOMAIN Append(s, e) = 1..(Len(s) + 1)
  BY <1>1, <1>2, LenProperties
<1>4. wal'[n] = Append(s, e) /\ \A m \in Names \ {n} : wal'[m] = wal[m]
  BY DEF Appends, EngineTypeOK
<1>5. wal' \in [Names -> Seq(Entry)]
  BY <1>2 DEF Appends, EngineTypeOK
<1>6. 1..(Len(s) + 1) = 1..Len(s) \cup {Len(s) + 1}
  BY <1>3
<1>7. ASSUME NEW m \in Names, NEW i \in DOMAIN wal[m]
      PROVE  i \in DOMAIN wal'[m] /\ wal'[m][i] = wal[m][i]
  <2>1. CASE m = n
    BY <1>2, <1>3, <1>4, <1>6, <2>1
  <2>2. CASE m # n
    BY <1>4, <2>2
  <2>3. QED BY <2>1, <2>2
<1>8. QED BY <1>2, <1>3, <1>4, <1>5, <1>6, <1>7 DEF Appended

\* The number a built Db holds is the end of its log or is taken: when its
\* create succeeds it is the writer of the newest object.
LEMMA NextIsFree ==
    ASSUME EngineTypeOK, NEW d \in Requests, name[d] \in Names,
           BuiltIsFenced(d), Built(d), Created(name[d], next[d])
    PROVE  /\ next[d] = Len(wal[name[d]]) + 1
           /\ Len(wal[name[d]]) \in DOMAIN wal[name[d]]
           /\ wal[name[d]][Len(wal[name[d]])].by = d
<1>1. /\ Len(wal[name[d]]) \in Nat
      /\ DOMAIN wal[name[d]] = 1..Len(wal[name[d]])
      /\ next[d] \in Nat
  BY LenProperties DEF EngineTypeOK
<1>2. next[d] - 1 \in 1..Len(wal[name[d]]) /\ next[d] \notin 1..Len(wal[name[d]])
  BY <1>1 DEF BuiltIsFenced, Created
<1>3. next[d] = Len(wal[name[d]]) + 1
  BY <1>1, <1>2
<1>4. QED BY <1>1, <1>2, <1>3 DEF BuiltIsFenced

\* Appending keeps the objects of every writer contiguous when the writer is
\* new to the log or wrote its newest object.
LEMMA AppendContiguous ==
    ASSUME EngineTypeOK, WritersContiguous,
           NEW n \in Names, NEW d \in Requests, NEW ws \in SUBSET Writes,
           Appends(n, d, ws),
           \/ \A i \in DOMAIN wal[n] : wal[n][i].by # d
           \/ Len(wal[n]) \in DOMAIN wal[n] /\ wal[n][Len(wal[n])].by = d
    PROVE  WritersContiguous'
<1> DEFINE L == Len(wal[n])
<1> SUFFICES ASSUME NEW m \in Names, NEW i \in DOMAIN wal'[m],
                    NEW j \in DOMAIN wal'[m], NEW k \in DOMAIN wal'[m],
                    i < j, j < k, wal'[m][i].by = wal'[m][k].by
             PROVE  wal'[m][j].by = wal'[m][i].by
  BY DEF WritersContiguous
<1>0. Appended(n, d, ws)
  BY AppendShape
<1>1. CASE m # n
  <2>1. wal'[m] = wal[m]
    BY <1>0, <1>1 DEF Appended
  <2>2. wal[m][i].by = wal[m][k].by /\ {i, j, k} \subseteq DOMAIN wal[m]
    BY <2>1
  <2>3. wal[m][j].by = wal[m][i].by
    BY <2>2 DEF WritersContiguous
  <2>4. QED BY <2>1, <2>3
<1>2. CASE m = n
  <2>1. /\ DOMAIN wal'[n] = 1..L \cup {L + 1} /\ DOMAIN wal[n] = 1..L /\ L \in Nat
        /\ wal'[n][L + 1].by = d
        /\ \A q \in 1..L : wal'[n][q] = wal[n][q]
    BY <1>0 DEF Appended
  <2>2. i \in 1..L /\ j \in 1..L
    BY <1>2, <2>1
  <2>3. CASE k \in 1..L
    BY <1>2, <2>1, <2>2, <2>3 DEF WritersContiguous
  <2>4. CASE k = L + 1
    <3>1. wal[n][i].by = d
      BY <1>2, <2>1, <2>2, <2>4
    <3>2. L \in DOMAIN wal[n] /\ wal[n][L].by = d
      BY <2>1, <2>2, <3>1
    <3>3. CASE j = L
      BY <1>2, <2>1, <2>2, <3>1, <3>2, <3>3
    <3>4. CASE j < L
      BY <1>2, <2>1, <2>2, <3>1, <3>2, <3>4 DEF WritersContiguous
    <3>5. QED BY <2>1, <2>2, <3>3, <3>4
  <2>5. QED BY <1>2, <2>1, <2>3, <2>4
<1>3. QED BY <1>1, <1>2

\* The three ways in which a step of d may touch the logs: not at all, with
\* its fence, or with the object whose number it holds.
Quiet == UNCHANGED <<wal, next>>

Fences(d) ==
    /\ status[d] = "building"
    /\ Appends(name[d], d, {})
    /\ \/ next' = [next EXCEPT ![d] = Len(wal[name[d]]) + 2] /\ status'[d] = "open"
       \/ UNCHANGED next /\ status'[d] = "failed"

Extends(d) ==
    /\ status[d] \in {"open", "closing"}
    /\ Created(name[d], next[d])
    /\ Appends(name[d], d, buffer[d])
    /\ \/ next' = [next EXCEPT ![d] = @ + 1] /\ status'[d] = status[d]
       \/ UNCHANGED next /\ status'[d] = "failed"

\* What a step of d does to the Dbs: the others keep everything, and d keeps
\* its name once it has one and never returns to an earlier stage.
Moves(d) ==
    /\ status' \in [Requests -> Status]
    /\ name' \in [Requests -> Names \cup {None}]
    /\ buffer' \in [Requests -> SUBSET Writes]
    /\ \A e \in Requests \ {d} :
         status'[e] = status[e] /\ name'[e] = name[e] /\ next'[e] = next[e]
    /\ status[d] # "unused" => name'[d] = name[d] /\ status'[d] # "unused"
    /\ status'[d] # "unused" => name'[d] \in Names
    /\ status[d] \notin {"unused", "building"} =>
         status'[d] \notin {"unused", "building"}
    /\ status'[d] \in {"open", "closing", "closed"} =>
         \/ status[d] \in {"open", "closing", "closed"}
         \/ status[d] = "building" /\ next'[d] > 0

\* Every engine step is of one of these shapes.
LEMMA EngineShape ==
    ASSUME EngineTypeOK, EngineInv, NEW d \in Requests, EngineAny(d)
    PROVE  Moves(d) /\ (Quiet \/ Fences(d) \/ Extends(d))
<1> USE DEF Moves, Quiet, Fences, Extends, Status
<1>0. /\ status \in [Requests -> Status]
      /\ name \in [Requests -> Names \cup {None}]
      /\ next \in [Requests -> Nat]
      /\ buffer \in [Requests -> SUBSET Writes]
      /\ status[d] # "unused" => name[d] \in Names
  BY DEF EngineTypeOK, EngineInv
<1>1. ASSUME NEW n \in Names, BuildStart(d, n)
      PROVE  Moves(d) /\ Quiet
  BY <1>0, <1>1 DEF BuildStart
<1>2. ASSUME NEW w \in Writes, Accept(d, w)
      PROVE  Moves(d) /\ Quiet
  BY <1>0, <1>2 DEF Accept
<1>3. CASE CloseStart(d)
  BY <1>0, <1>3 DEF CloseStart
<1>4. CASE BuildOk(d)
  <2>1. name[d] \in Names /\ Len(wal[name[d]]) \in Nat
    BY <1>0, <1>4, LenProperties DEF BuildOk, EngineTypeOK
  <2>2. Appends(name[d], d, {})
    <3>1. wal' = Stored(name[d], Len(wal[name[d]]) + 1, d, {})
      BY <1>4 DEF BuildOk
    <3>2. QED BY <2>1, <3>1, StoringAppends
  <2>3. QED BY <1>0, <1>4, <2>1, <2>2 DEF BuildOk
<1>5. CASE BuildErr(d)
  <2>1. name[d] \in Names
    BY <1>0, <1>5 DEF BuildErr
  <2>2. UNCHANGED wal \/ Appends(name[d], d, {})
    <3>1. UNCHANGED wal \/ wal' = Stored(name[d], Len(wal[name[d]]) + 1, d, {})
      BY <1>5 DEF BuildErr
    <3>2. QED BY <2>1, <3>1, StoringAppends
  <2>3. QED BY <1>0, <1>5, <2>2 DEF BuildErr
<1>6. CASE Flush(d)
  <2>1. name[d] \in Names /\ buffer[d] \in SUBSET Writes /\ Built(d)
    BY <1>0, <1>6 DEF Flush, EngineInv
  <2>2. next[d] = Len(wal[name[d]]) + 1
    BY <1>6, <2>1, NextIsFree DEF Flush, EngineInv
  <2>3. Appends(name[d], d, buffer[d])
    <3>1. wal' = Stored(name[d], Len(wal[name[d]]) + 1, d, buffer[d])
      BY <1>6, <2>2 DEF Flush
    <3>2. QED BY <2>1, <3>1, StoringAppends
  <2>4. QED BY <1>0, <1>6, <2>3 DEF Flush
<1>7. CASE Fenced(d)
  BY <1>0, <1>7 DEF Fenced
<1>8. CASE CloseOk(d)
  BY <1>0, <1>8 DEF CloseOk
<1>9. CASE Breaks(d)
  <2>1. name[d] \in Names /\ buffer[d] \in SUBSET Writes /\ Built(d)
    BY <1>0, <1>9 DEF Breaks, EngineInv
  <2>2. \/ UNCHANGED wal
        \/ Created(name[d], next[d]) /\ Appends(name[d], d, buffer[d])
    <3>1. CASE Created(name[d], next[d])
      <4>1. next[d] = Len(wal[name[d]]) + 1
        BY <2>1, <3>1, NextIsFree DEF EngineInv
      <4>2. \/ UNCHANGED wal
            \/ wal' = Stored(name[d], Len(wal[name[d]]) + 1, d, buffer[d])
        BY <1>9, <4>1 DEF Breaks
      <4>3. QED BY <2>1, <3>1, <4>2, StoringAppends
    <3>2. QED BY <1>9, <3>1 DEF Breaks
  <2>3. QED BY <1>0, <1>9, <2>2 DEF Breaks
<1>10. QED
  BY <1>1, <1>2, <1>3, <1>4, <1>5, <1>6, <1>7, <1>8, <1>9
     DEF EngineAny, EngineStep, Progress

\* No step of any Db rewrites or removes an object.
LEMMA EngineLogGrows ==
    ASSUME EngineTypeOK, EngineInv, NEW d \in Requests, EngineAny(d)
    PROVE  \A n \in Names : \A i \in DOMAIN wal[n] :
             i \in DOMAIN wal'[n] /\ wal'[n][i] = wal[n][i]
<1>1. Quiet \/ \E ws : /\ ws \in SUBSET Writes
                       /\ Appends(name[d], d, ws)
                       /\ name[d] \in Names
  <2>1. /\ {} \in SUBSET Writes /\ buffer[d] \in SUBSET Writes
        /\ status[d] # "unused" => name[d] \in Names
    BY DEF EngineTypeOK, EngineInv
  <2>2. QED BY <2>1, EngineShape DEF Fences, Extends
<1>2. CASE Quiet
  BY <1>2 DEF Quiet
<1>3. ASSUME NEW ws \in SUBSET Writes, Appends(name[d], d, ws), name[d] \in Names
      PROVE  \A n \in Names : \A i \in DOMAIN wal[n] :
               i \in DOMAIN wal'[n] /\ wal'[n][i] = wal[n][i]
  <2>1. Appended(name[d], d, ws)
    BY <1>3, AppendShape
  <2>2. QED BY <2>1 DEF Appended
<1>4. QED BY <1>1, <1>2, <1>3

\* EngineTypeOK and EngineInv are inductive.
LEMMA EngineInductive ==
    ASSUME EngineTypeOK, EngineInv, NEW d \in Requests, EngineAny(d)
    PROVE  EngineTypeOK' /\ EngineInv'
<1> DEFINE n == name[d]
<1>1. Moves(d) /\ (Quiet \/ Fences(d) \/ Extends(d))
  BY EngineShape
<1>2. /\ status \in [Requests -> Status] /\ next \in [Requests -> Nat]
      /\ wal \in [Names -> Seq(Entry)] /\ buffer[d] \in SUBSET Writes
      /\ WritersContiguous
      /\ status[d] # "unused" => n \in Names
  BY DEF EngineTypeOK, EngineInv
<1>3. CASE Quiet
  <2>1. EngineTypeOK'
    BY <1>1, <1>2, <1>3 DEF Moves, Quiet, EngineTypeOK
  <2>2. WritersContiguous'
    BY <1>2, <1>3 DEF Quiet, WritersContiguous
  <2>3. ASSUME NEW e \in Requests
        PROVE  /\ UnbuiltIsAbsent(e)'
               /\ BuiltIsFenced(e)'
               /\ status'[e] # "unused" => name'[e] \in Names
               /\ status'[e] \in {"open", "closing", "closed"} => Built(e)'
    <3>1. CASE e # d
      BY <1>1, <1>3, <3>1
         DEF Moves, Quiet, EngineInv, UnbuiltIsAbsent, BuiltIsFenced, Built
    <3>2. CASE e = d
      <4>1. next'[d] > 0 => status[d] \notin {"unused", "building"}
        BY <1>3 DEF Quiet, EngineInv, UnbuiltIsAbsent, Built
      <4>2. QED BY <1>1, <1>3, <3>2, <4>1
         DEF Moves, Quiet, EngineInv, UnbuiltIsAbsent, BuiltIsFenced, Built
    <3>3. QED BY <3>1, <3>2
  <2>4. QED BY <2>1, <2>2, <2>3 DEF EngineInv
<1>4. ASSUME NEW ws \in SUBSET Writes, Appends(n, d, ws), n \in Names,
             status[d] \notin {"unused"}, status'[d] \notin {"unused", "building"},
             next' \in [Requests -> Nat],
             \/ \A i \in DOMAIN wal[n] : wal[n][i].by # d
             \/ Len(wal[n]) \in DOMAIN wal[n] /\ wal[n][Len(wal[n])].by = d,
             \/ next'[d] = next[d]
             \/ next'[d] = Len(wal[n]) + 2
      PROVE  EngineTypeOK' /\ EngineInv'
  <2>1. Appended(n, d, ws)
    BY <1>4, AppendShape
  <2>2. EngineTypeOK'
    BY <1>1, <1>4, <2>1 DEF Moves, Appended, EngineTypeOK
  <2>3. WritersContiguous'
    BY <1>2, <1>4, AppendContiguous
  <2>4. name'[d] = n
    BY <1>1, <1>4 DEF Moves
  <2>5. ASSUME NEW e \in Requests \ {d}
        PROVE  UnbuiltIsAbsent(e)' /\ BuiltIsFenced(e)'
    <3>1. /\ status'[e] = status[e] /\ name'[e] = name[e] /\ next'[e] = next[e]
          /\ UnbuiltIsAbsent(e) /\ BuiltIsFenced(e)
          /\ next[e] > 0 => name[e] \in Names
      BY <1>1 DEF Moves, EngineInv, UnbuiltIsAbsent, Built
    <3>2. UnbuiltIsAbsent(e)'
      <4> SUFFICES ASSUME status[e] \in {"unused", "building"},
                          NEW m \in Names, NEW i \in DOMAIN wal'[m]
                   PROVE  ~(next'[e] > 0) /\ wal'[m][i].by # e
        BY <3>1 DEF UnbuiltIsAbsent, Built
      <4>1. \/ i \in DOMAIN wal[m] /\ wal'[m][i] = wal[m][i]
            \/ wal'[m][i].by = d
        BY <2>1 DEF Appended
      <4>2. QED BY <3>1, <4>1 DEF UnbuiltIsAbsent, Built
    <3>3. BuiltIsFenced(e)'
      BY <2>1, <3>1 DEF Appended, BuiltIsFenced, Built
    <3>4. QED BY <3>2, <3>3
  <2>6. BuiltIsFenced(d)'
    <3>1. CASE next'[d] = next[d]
      BY <1>4, <2>1, <2>4, <3>1 DEF Appended, BuiltIsFenced, Built, EngineInv
    <3>2. CASE next'[d] = Len(wal[n]) + 2
      BY <2>1, <2>4, <3>2 DEF Appended, BuiltIsFenced, Built
    <3>3. QED BY <1>4, <3>1, <3>2
  <2>7. UnbuiltIsAbsent(d)'
    BY <1>4 DEF UnbuiltIsAbsent
  <2>8. ASSUME NEW e \in Requests
        PROVE  /\ status'[e] # "unused" => name'[e] \in Names
               /\ status'[e] \in {"open", "closing", "closed"} => Built(e)'
    <3>1. CASE e # d
      BY <1>1, <3>1 DEF Moves, EngineInv, Built
    <3>2. CASE e = d
      BY <1>1, <1>2, <1>4, <2>1, <3>2 DEF Moves, EngineInv, Built, Appended
    <3>3. QED BY <3>1, <3>2
  <2>9. QED BY <2>2, <2>3, <2>5, <2>6, <2>7, <2>8 DEF EngineInv
<1>5. CASE Fences(d)
  <2>1. \A i \in DOMAIN wal[n] : wal[n][i].by # d
    BY <1>2, <1>5 DEF Fences, EngineInv, UnbuiltIsAbsent
  <2>2. Len(wal[n]) \in Nat
    BY <1>2, <1>5, LenProperties DEF Fences
  <2>3. next' \in [Requests -> Nat]
        /\ (next'[d] = next[d] \/ next'[d] = Len(wal[n]) + 2)
    BY <1>2, <1>5, <2>2 DEF Fences
  <2>4. {} \in SUBSET Writes /\ n \in Names /\ Appends(n, d, {})
        /\ status[d] # "unused" /\ status'[d] \notin {"unused", "building"}
    BY <1>2, <1>5 DEF Fences
  <2>5. QED BY <1>4, <2>1, <2>3, <2>4
<1>6. CASE Extends(d)
  <2>1. /\ n \in Names /\ Built(d) /\ BuiltIsFenced(d)
    BY <1>2, <1>6 DEF Extends, EngineInv
  <2>2. /\ next[d] = Len(wal[n]) + 1
        /\ Len(wal[n]) \in DOMAIN wal[n] /\ wal[n][Len(wal[n])].by = d
    BY <1>6, <2>1, NextIsFree DEF Extends
  <2>3. next' \in [Requests -> Nat]
        /\ (next'[d] = next[d] \/ next'[d] = Len(wal[n]) + 2)
    BY <1>2, <1>6, <2>2 DEF Extends
  <2>4. Appends(n, d, buffer[d]) /\ status[d] # "unused"
        /\ status'[d] \notin {"unused", "building"}
    BY <1>6 DEF Extends
  <2>5. QED BY <1>2, <1>4, <2>1, <2>2, <2>3, <2>4
<1>7. QED BY <1>1, <1>3, <1>5, <1>6

----------------------------------------------------------------------------
(* The object. *)

(***************************************************************************)
(* A Db that a request or the object holds was built for the name the      *)
(* request asked for, and a put waits for its own write.                   *)
(***************************************************************************)
CallInv(r) ==
    /\ pc[r] # "new" => asked[r] \in Names
    /\ pc[r] = "opening" => status[r] # "unused" /\ name[r] = asked[r]
    /\ pc[r] \in {"call", "sent"} =>
         /\ held[r] \in Requests
         /\ status[held[r]] # "unused"
         /\ name[held[r]] = asked[r]
    /\ pc[r] = "closing" => held[r] \in Requests
    /\ pc[r] = "sent" /\ kind[r] = "put" => want[r] = {<<r, OneClient>>}

ObjectInv ==
    /\ active # None => active \in Requests /\ status[active] # "unused"
    /\ \A r \in Requests : CallInv(r)
    /\ AckedDurable

IInv == TypeOK /\ EngineInv /\ ObjectInv

\* Where a handler stands, here or in the container's process.
Places == {"new", "removing", "dropped"} \cup Waiting \cup Answered

\* What the lemmas about one handler need of the object; the container's process
\* has it too.
Shared ==
    /\ EngineTypeOK /\ EngineInv
    /\ active \in Requests \cup {None} /\ lock \in Requests \cup {None}
    /\ pc \in [Requests -> Places]
    /\ held \in [Requests -> Requests \cup {None}]
    /\ want \in [Requests -> SUBSET Writes]
    /\ ObjectInv

\* The object has it.
LEMMA ObjectShares == IInv => Shared
<1> SUFFICES ASSUME IInv PROVE Shared
  OBVIOUS
<1>1. pc \in [Requests -> Places]
  BY DEF IInv, TypeOK, Places
<1>2. QED BY <1>1 DEF IInv, TypeOK, Shared

\* A step that leaves the engine alone or is one of the engine.
EngineMoves == UNCHANGED engine \/ \E d \in Requests : EngineAny(d)

\* A handler leaves the engine alone or calls it once.
LEMMA HandleMoves ==
    ASSUME Shared, NEW r \in Requests, Handle(r)
    PROVE  EngineMoves
<1> USE DEF engine, object, EngineMoves
<1>0. CallInv(r) /\ (active # None => active \in Requests)
  BY DEF Shared, ObjectInv
<1>1. CASE DatabaseWrongName(r) BY <1>1 DEF DatabaseWrongName
<1>2. CASE DatabaseOpen(r) BY <1>2 DEF DatabaseOpen
<1>3. CASE DatabaseOpening(r)
  BY <1>0, <1>3 DEF DatabaseOpening, EngineAny, CallInv
<1>4. CASE Reopen(r)
  BY <1>0, <1>4 DEF Reopen, EngineAny, CallInv
<1>5. CASE ReopenClosed(r)
  BY <1>0, <1>5 DEF ReopenClosed, EngineAny, CallInv
<1>6. CASE ReopenCloseErr(r) BY <1>6 DEF ReopenCloseErr
<1>7. CASE Installed(r) BY <1>7 DEF Installed
<1>8. CASE OpenErr(r) BY <1>8 DEF OpenErr
<1>9. CASE Stats(r) BY <1>9 DEF Stats
<1>10. CASE Put(r)
  <2>1. <<r, OneClient>> \in Writes
    BY OneClientAssumption DEF Writes
  <2>2. QED BY <1>0, <1>10, <2>1 DEF Put, EngineAny, CallInv
<1>11. CASE DurableOk(r) BY <1>11 DEF DurableOk
<1>12. CASE FlushCall(r) BY <1>12 DEF FlushCall
<1>13. CASE Get(r) BY <1>13 DEF Get
<1>14. CASE \E c \in Clients : BenchPut(r, c)
  <2>1. PICK c \in Clients : BenchPut(r, c) BY <1>14
  <2>2. <<r, c>> \in Writes BY DEF Writes
  <2>3. QED BY <1>0, <2>1, <2>2 DEF BenchPut, EngineAny, CallInv
<1>15. CASE BenchOk(r) BY <1>15 DEF BenchOk
<1>16. CASE BenchErr(r) BY <1>16 DEF BenchErr
<1>17. CASE CallErr(r) BY <1>17 DEF CallErr
<1>18. QED
  BY <1>1, <1>2, <1>3, <1>4, <1>5, <1>6, <1>7, <1>8, <1>9, <1>10,
     <1>11, <1>12, <1>13, <1>14, <1>15, <1>16, <1>17 DEF Handle

\* The steps of the object leave the engine alone or take one engine step.
LEMMA ObjectSteps ==
    ASSUME IInv, Next
    PROVE  EngineMoves
<1> USE DEF engine, object, calls, vars, EngineMoves
<1>1. CASE \E r \in Requests, k \in Kinds, n \in Names : Start(r, k, n)
  BY <1>1 DEF Start
<1>2. CASE \E r \in Requests : Handle(r)
  BY <1>2, HandleMoves, ObjectShares
<1>3. CASE \E d \in Requests : Engine(d)
  BY <1>3 DEF Engine, EngineAny
<1>4. CASE Evict
  BY <1>4 DEF Evict
<1>5. CASE Quiescent
  BY <1>5 DEF Quiescent
<1>6. QED BY <1>1, <1>2, <1>3, <1>4, <1>5 DEF Next

\* What every step keeps of the engine's state.
Keeps ==
    /\ \A d \in Requests : status[d] # "unused" =>
         status'[d] # "unused" /\ name'[d] = name[d]
    /\ \A n \in Names : \A i \in DOMAIN wal[n] :
         i \in DOMAIN wal'[n] /\ wal'[n][i] = wal[n][i]

\* Every step keeps the engine's types and invariant.
LEMMA EngineKeeps ==
    ASSUME EngineTypeOK, EngineInv, EngineMoves
    PROVE  EngineTypeOK' /\ EngineInv' /\ Keeps
<1>1. CASE UNCHANGED engine
  <2>1. EngineTypeOK' BY <1>1 DEF engine, EngineTypeOK
  <2>2. EngineInv'
    BY <1>1 DEF engine, EngineInv, UnbuiltIsAbsent, BuiltIsFenced,
                WritersContiguous, Built
  <2>3. Keeps BY <1>1 DEF engine, Keeps
  <2>4. QED BY <2>1, <2>2, <2>3
<1>2. ASSUME NEW d \in Requests, EngineAny(d)
      PROVE  EngineTypeOK' /\ EngineInv' /\ Keeps
  <2>1. EngineTypeOK' /\ EngineInv'
    BY <1>2, EngineInductive
  <2>2. Moves(d)
    BY <1>2, EngineShape
  <2>3. \A n \in Names : \A i \in DOMAIN wal[n] :
          i \in DOMAIN wal'[n] /\ wal'[n][i] = wal[n][i]
    BY <1>2, EngineLogGrows
  <2>4. QED BY <2>1, <2>2, <2>3 DEF Moves, Keeps
<1>3. QED BY <1>1, <1>2 DEF EngineMoves

\* Every step of the object keeps them.
LEMMA EngineKept ==
    ASSUME IInv, [Next]_vars
    PROVE  EngineTypeOK' /\ EngineInv' /\ Keeps /\ EngineMoves
<1>1. EngineMoves
  BY ObjectSteps DEF vars, EngineMoves
<1>2. QED BY <1>1, EngineKeeps DEF IInv, TypeOK

\* A step of a system whose engine is in order.
EngineRuns == EngineTypeOK /\ EngineInv /\ EngineMoves

\* The object is such a system.
LEMMA ObjectRuns == IInv /\ [Next]_vars => EngineRuns
BY EngineKept DEF EngineRuns, IInv, TypeOK

\* A request that stays where it is, or is answered, keeps its invariant.
LEMMA CallKept ==
    ASSUME Shared, Keeps, NEW q \in Requests,
           pc'[q] = pc[q] \/ (pc[q] # "new" /\ pc'[q] \in Answered \cup {"removing", "dropped"}),
           kind'[q] = kind[q], asked'[q] = asked[q],
           held'[q] = held[q], want'[q] = want[q]
    PROVE  CallInv(q)'
<1>1. CallInv(q)
  BY DEF Shared, ObjectInv
<1>2. CASE pc'[q] = pc[q]
  <2>1. pc[q] \in {"call", "sent"} => held[q] \in Requests
    BY <1>1 DEF CallInv
  <2>2. QED BY <1>1, <1>2, <2>1 DEF CallInv, Keeps
<1>3. CASE pc[q] # "new" /\ pc'[q] \in Answered \cup {"removing", "dropped"}
  BY <1>1, <1>3 DEF CallInv, Answered
<1>4. QED BY <1>2, <1>3

\* The variables of requests other than r.
OnlyMoves(r) ==
    \A q \in Requests \ {r} :
        /\ pc'[q] = pc[q] /\ kind'[q] = kind[q] /\ asked'[q] = asked[q]
        /\ held'[q] = held[q] /\ want'[q] = want[q]

\* One step of one request keeps the types of the object's variables and the
\* invariants of all requests.
Kept(r) ==
    /\ active' \in Requests \cup {None} /\ lock' \in Requests \cup {None}
    /\ orphans' = orphans /\ before' = before
    /\ pc' \in [Requests -> Places] /\ pc'[r] \in Waiting \cup Answered
    /\ kind' = kind /\ asked' = asked
    /\ held' \in [Requests -> Requests \cup {None}]
    /\ want' \in [Requests -> SUBSET Writes]
    /\ active' # None => status'[active'] # "unused"
    /\ OnlyMoves(r) /\ CallInv(r)'

\* One step of one request keeps the invariants of them all.
LEMMA HandleKeeps ==
    ASSUME Shared, Keeps, NEW r \in Requests, Handle(r)
    PROVE  Kept(r)
<1>0. /\ active \in Requests \cup {None} /\ lock \in Requests \cup {None}
      /\ pc \in [Requests -> Places]
      /\ held \in [Requests -> Requests \cup {None}]
      /\ want \in [Requests -> SUBSET Writes]
      /\ buffer \in [Requests -> SUBSET Writes]
      /\ active # None => active \in Requests /\ status[active] # "unused"
      /\ CallInv(r)
      /\ name \in [Requests -> Names \cup {None}]
      /\ status \in [Requests -> Status]
  BY DEF Shared, ObjectInv, EngineTypeOK
<1>1. active' = active => (active' # None => status'[active'] # "unused")
  BY <1>0 DEF Keeps
\* The steps that only answer r.
<1>2. ASSUME NEW p \in Answered, Go(r, p), pc[r] # "new", active' = active,
             lock' \in {lock, None}, UNCHANGED <<orphans, kind, asked, held, want, before>>
      PROVE  Kept(r)
  <2>1. pc'[r] = p
    BY <1>0, <1>2 DEF Go
  <2>2. CallInv(r)'
    BY <1>2, <2>1, CallKept
  <2>3. QED BY <1>0, <1>1, <1>2, <2>1, <2>2 DEF Kept, OnlyMoves, Go, Places
<1>3. "ok" \in Answered /\ "error" \in Answered
  BY DEF Answered
<1>4. CASE DatabaseWrongName(r)
  BY <1>2, <1>3, <1>4 DEF DatabaseWrongName, object
<1>5. CASE ReopenCloseErr(r)
  BY <1>2, <1>3, <1>5 DEF ReopenCloseErr
<1>6. CASE OpenErr(r)
  BY <1>2, <1>3, <1>6 DEF OpenErr
<1>7. CASE Stats(r)
  BY <1>2, <1>3, <1>7 DEF Stats, object
<1>8. CASE DurableOk(r)
  BY <1>2, <1>3, <1>8 DEF DurableOk, object
<1>9. CASE Get(r)
  BY <1>2, <1>3, <1>9 DEF Get, object
<1>10. CASE BenchOk(r)
  BY <1>2, <1>3, <1>10 DEF BenchOk, object
<1>11. CASE BenchErr(r)
  BY <1>2, <1>3, <1>11 DEF BenchErr, object
<1>12. CASE CallErr(r)
  BY <1>2, <1>3, <1>12 DEF CallErr, object
<1>13. CASE DatabaseOpen(r)
  <2>1. pc'[r] = "call" /\ held'[r] = active /\ pc[r] # "new"
    BY <1>0, <1>13 DEF DatabaseOpen, Go
  <2>2. CallInv(r)'
    BY <1>0, <1>13, <2>1 DEF DatabaseOpen, RightName, CallInv, Keeps
  <2>3. QED BY <1>0, <1>1, <1>13, <2>1, <2>2
             DEF DatabaseOpen, Kept, OnlyMoves, Go, Places, Waiting, object
<1>14. ASSUME BuildStart(r, asked[r]), Go(r, "opening"), pc[r] # "new",
              active' \in {active, None}, lock' \in {lock, r},
              UNCHANGED <<orphans, kind, asked, held, want, before>>
       PROVE  Kept(r)
  <2>1. pc'[r] = "opening" /\ status'[r] # "unused" /\ name'[r] = asked[r]
    BY <1>0, <1>14 DEF BuildStart, Go
  <2>2. CallInv(r)'
    BY <1>0, <1>14, <2>1 DEF CallInv
  <2>3. QED BY <1>0, <1>1, <1>14, <2>1, <2>2 DEF Kept, OnlyMoves, Go, Places, Waiting
<1>15. CASE DatabaseOpening(r)
  BY <1>14, <1>15 DEF DatabaseOpening, HoldLock
<1>16. CASE ReopenClosed(r)
  BY <1>14, <1>16 DEF ReopenClosed, object
<1>17. CASE Reopen(r)
  <2>1. CASE active = None
    BY <1>14, <1>17, <2>1 DEF Reopen, HoldLock
  <2>2. CASE active # None
    <3>1. pc'[r] = "closing" /\ held'[r] \in Requests /\ pc[r] # "new"
      BY <1>0, <1>17, <2>2 DEF Reopen, Go
    <3>2. CallInv(r)'
      BY <1>0, <1>17, <3>1 DEF Reopen, CallInv
    <3>3. QED BY <1>0, <1>17, <2>2, <3>1, <3>2
               DEF Reopen, HoldLock, Kept, OnlyMoves, Go, Places, Waiting
  <2>3. QED BY <2>1, <2>2
<1>18. CASE Installed(r)
  <2>1. /\ pc'[r] = (IF UsesDatabase(r) THEN "call" ELSE "ok")
        /\ held'[r] = r /\ active' = r /\ pc[r] = "opening"
    BY <1>0, <1>18 DEF Installed, Go
  <2>2. status[r] # "unused" /\ name[r] = asked[r]
    BY <1>0, <2>1 DEF CallInv
  <2>3. status'[r] = status[r] /\ name' = name
    BY <1>18 DEF Installed, engine
  <2>4. CallInv(r)'
    BY <1>0, <1>18, <2>1, <2>2, <2>3 DEF Installed, CallInv, UsesDatabase
  <2>5. QED BY <1>0, <1>18, <2>1, <2>2, <2>3, <2>4
             DEF Installed, Kept, OnlyMoves, Go, Places, Waiting, Answered
<1>19. ASSUME NEW ws \in SUBSET Writes, want' = [want EXCEPT ![r] = ws],
              pc[r] = "call",
              \/ pc' = pc
              \/ Go(r, "sent") /\ (kind[r] = "put" => ws = {<<r, OneClient>>}),
              UNCHANGED <<active, lock, orphans, kind, asked, held, before>>
       PROVE  Kept(r)
  <2>1. pc'[r] \in {"call", "sent"} /\ want'[r] = ws
    BY <1>0, <1>19 DEF Go
  <2>2. held[r] \in Requests /\ status'[held[r]] # "unused"
        /\ name'[held[r]] = asked[r]
    BY <1>0, <1>19 DEF CallInv, Keeps
  <2>3. CallInv(r)'
    BY <1>0, <1>19, <2>1, <2>2 DEF CallInv, Go
  <2>4. QED BY <1>0, <1>1, <1>19, <2>1, <2>3 DEF Kept, OnlyMoves, Go, Places, Waiting
<1>20. CASE Put(r)
  <2>1. {<<r, OneClient>>} \in SUBSET Writes
    BY OneClientAssumption DEF Writes
  <2>2. QED BY <1>19, <1>20, <2>1 DEF Put, object
<1>21. CASE FlushCall(r)
  <2>1. ToDrain(held[r]) \in SUBSET Writes
    BY <1>0, <1>21 DEF FlushCall, CallInv, ToDrain
  <2>2. QED BY <1>19, <1>21, <2>1 DEF FlushCall, object
<1>22. ASSUME NEW c \in Clients, BenchPut(r, c)
       PROVE  Kept(r)
  <2>1. want[r] \cup {<<r, c>>} \in SUBSET Writes
    BY <1>0 DEF Writes
  <2>2. want' = [want EXCEPT ![r] = want[r] \cup {<<r, c>>}] /\ pc[r] = "call"
        /\ UNCHANGED <<active, lock, orphans, pc, kind, asked, held, before>>
    BY <1>22 DEF BenchPut, object
  <2>3. QED BY <1>19, <2>1, <2>2
<1>23. QED
  BY <1>4, <1>5, <1>6, <1>7, <1>8, <1>9, <1>10, <1>11, <1>12, <1>13, <1>15,
     <1>16, <1>17, <1>18, <1>20, <1>21, <1>22 DEF Handle

\* The types and the requests' invariants survive every step.
LEMMA CallsInductive ==
    ASSUME IInv, [Next]_vars, Keeps, EngineTypeOK'
    PROVE  /\ TypeOK'
           /\ active' # None => active' \in Requests /\ status'[active'] # "unused"
           /\ \A q \in Requests : CallInv(q)'
<1> DEFINE Goal ==
             /\ TypeOK'
             /\ active' # None => active' \in Requests /\ status'[active'] # "unused"
             /\ \A q \in Requests : CallInv(q)'
<1>0. /\ TypeOK
      /\ active # None => active \in Requests /\ status[active] # "unused"
      /\ \A q \in Requests : CallInv(q)
  BY DEF IInv, ObjectInv
<1>1. ASSUME NEW r \in Requests, NEW k \in Kinds, NEW n \in Names, Start(r, k, n)
      PROVE  Goal
  <2>1. /\ pc'[r] = "lock" /\ pc[r] = "new" /\ kind'[r] = k /\ asked'[r] = n
        /\ k \in AllKinds
    BY <1>0, <1>1, KindsAssumption DEF Start, Go, TypeOK
  <2>2. CallInv(r)'
    BY <2>1 DEF CallInv
  <2>3. ASSUME NEW q \in Requests \ {r} PROVE CallInv(q)'
    <3>1. /\ pc'[q] = pc[q] /\ kind'[q] = kind[q] /\ asked'[q] = asked[q]
          /\ held'[q] = held[q] /\ want'[q] = want[q]
      BY <1>0, <1>1 DEF Start, Go, TypeOK
    <3>2. QED BY <3>1, CallKept, ObjectShares
  <2>4. TypeOK'
    BY <1>0, <1>1, <2>1 DEF Start, Go, TypeOK, Waiting, object
  <2>5. active' = active
    BY <1>1 DEF Start, object
  <2>6. QED BY <1>0, <2>2, <2>3, <2>4, <2>5 DEF Keeps
<1>2. ASSUME NEW r \in Requests, Handle(r)
      PROVE  Goal
  <2>1. Kept(r)
    BY <1>2, HandleKeeps, ObjectShares
  <2>2. ASSUME NEW q \in Requests \ {r} PROVE CallInv(q)'
    BY <2>1, CallKept, ObjectShares DEF Kept, OnlyMoves
  <2>3. TypeOK'
    <3>1. pc' \in [Requests -> {"new"} \cup Waiting \cup Answered]
      BY <1>0, <2>1 DEF Kept, OnlyMoves, TypeOK
    <3>2. QED BY <1>0, <2>1, <3>1 DEF Kept, TypeOK
  <2>4. active' # None => active' \in Requests /\ status'[active'] # "unused"
    BY <2>1 DEF Kept
  <2>5. CallInv(r)'
    BY <2>1 DEF Kept
  <2>6. QED BY <2>2, <2>3, <2>4, <2>5
<1>3. CASE UNCHANGED <<object, calls>>
  <2>1. ASSUME NEW q \in Requests PROVE CallInv(q)'
    BY <1>3, CallKept, ObjectShares DEF calls
  <2>2. TypeOK'
    BY <1>0, <1>3 DEF TypeOK, object, calls
  <2>3. QED BY <1>0, <1>3, <2>1, <2>2 DEF object, Keeps
<1>4. CASE Evict
  <2>1. ASSUME NEW q \in Requests PROVE CallInv(q)'
    <3>1. pc'[q] = pc[q] \/ (pc[q] # "new" /\ pc'[q] \in Answered)
      BY <1>4 DEF Evict, Waiting, Answered
    <3>2. QED BY <1>4, <3>1, CallKept, ObjectShares DEF Evict
  <2>2. TypeOK'
    BY <1>0, <1>4 DEF Evict, TypeOK, Answered, engine
  <2>3. QED BY <1>4, <2>1, <2>2 DEF Evict
<1>5. \/ \E r \in Requests, k \in Kinds, n \in Names : Start(r, k, n)
      \/ \E r \in Requests : Handle(r)
      \/ UNCHANGED <<object, calls>>
      \/ Evict
  BY DEF Next, Engine, Quiescent, vars
<1>6. QED BY <1>1, <1>2, <1>3, <1>4, <1>5

\* What a Db knows to be durable is in the log of its name.
LEMMA KnownIsDurable ==
    ASSUME NEW d \in Requests, NEW n, name[d] = n
    PROVE  Known(d) \subseteq Durable(n)
  BY DEF Known, Durable

\* No durable write is lost.
LEMMA DurableGrows ==
    ASSUME Keeps, NEW n \in Names
    PROVE  Durable(n) \subseteq Durable(n)'
  BY DEF Keeps, Durable

\* Of the handlers' steps, DurableOk alone acknowledges a put.
LEMMA HandleAcks ==
    ASSUME Shared, Keeps, NEW r \in Requests, Handle(r), NEW q \in Requests,
           Ok(q, "put")'
    PROVE  (Ok(q, "put") /\ asked'[q] = asked[q]) \/ DurableOk(q)
<1>1. Kept(r)
  BY HandleKeeps
<1>2. kind[q] = "put" /\ asked'[q] = asked[q]
  BY <1>1 DEF Kept, Ok
<1>3. CASE q # r
  BY <1>1, <1>2, <1>3 DEF Kept, OnlyMoves, Ok
<1>4. CASE q = r
  <2>1. pc'[r] = "ok" /\ kind[r] = "put"
    BY <1>2, <1>4 DEF Ok
  <2>2. DurableOk(r)
    BY <2>1
       DEF Shared, Handle, DatabaseWrongName, DatabaseOpen, DatabaseOpening, Reopen,
           ReopenClosed, ReopenCloseErr, Installed, OpenErr, Stats, Put,
           FlushCall, Get, BenchPut, BenchOk, BenchErr, CallErr, Go, UsesDatabase
  <2>3. QED BY <1>4, <2>2
<1>5. QED BY <1>3, <1>4

\* A put is acknowledged by DurableOk alone.
LEMMA AckedComes ==
    ASSUME IInv, [Next]_vars, Keeps, NEW q \in Requests, Ok(q, "put")'
    PROVE  (Ok(q, "put") /\ asked'[q] = asked[q]) \/ DurableOk(q)
<1>1. ASSUME NEW r \in Requests, NEW k \in Kinds, NEW m \in Names, Start(r, k, m)
      PROVE  Ok(q, "put") /\ asked'[q] = asked[q]
  BY <1>1 DEF Start, Go, Ok, TypeOK, IInv
<1>2. ASSUME NEW r \in Requests, Handle(r)
      PROVE  (Ok(q, "put") /\ asked'[q] = asked[q]) \/ DurableOk(q)
  BY <1>2, HandleAcks, ObjectShares
<1>3. CASE UNCHANGED <<object, calls>>
  BY <1>3 DEF calls, Ok
<1>4. CASE Evict
  BY <1>4 DEF Evict, Ok, TypeOK, IInv
<1>5. QED
  BY <1>1, <1>2, <1>3, <1>4 DEF Next, Engine, Quiescent, vars

\* Only a put whose write is durable becomes an acknowledged put.
LEMMA AckedKeeps ==
    ASSUME Shared, Keeps,
           \A q \in Requests : Ok(q, "put")' =>
               (Ok(q, "put") /\ asked'[q] = asked[q]) \/ (DurableOk(q) /\ asked'[q] = asked[q])
    PROVE  AckedDurable'
<1> SUFFICES ASSUME NEW n \in Names, NEW q \in Requests,
                    Ok(q, "put")', asked'[q] = n
             PROVE  <<q, OneClient>> \in Durable(n)'
  BY DEF AckedDurable, AckedPuts
<1>1. <<q, OneClient>> \in Durable(n) => <<q, OneClient>> \in Durable(n)'
  BY DurableGrows
<1>2. CASE Ok(q, "put") /\ asked[q] = n
  BY <1>1, <1>2 DEF Shared, ObjectInv, AckedDurable, AckedPuts
<1>3. CASE DurableOk(q) /\ asked[q] = n
  <2>1. /\ pc[q] = "sent" /\ kind'[q] = kind[q] /\ want[q] \subseteq Known(held[q])
    BY <1>3 DEF DurableOk, AwaitDurable
  <2>2. kind[q] = "put"
    BY <2>1 DEF Ok
  <2>3. held[q] \in Requests /\ name[held[q]] = n /\ <<q, OneClient>> \in want[q]
    BY <1>3, <2>1, <2>2 DEF Shared, ObjectInv, CallInv
  <2>4. <<q, OneClient>> \in Known(held[q])
    BY <2>1, <2>3
  <2>5. QED BY <1>1, <2>3, <2>4, KnownIsDurable
<1>4. QED BY <1>2, <1>3

----------------------------------------------------------------------------
\* The initial states satisfy the inductive invariant.
LEMMA InitInv == Init => IInv
<1> SUFFICES ASSUME Init PROVE IInv
  OBVIOUS
<1> USE DEF Init, EngineInit
<1>1. EngineTypeOK
  <2>1. wal \in [Names -> Seq(Entry)]
    BY EmptySeq
  <2>2. QED BY <2>1 DEF EngineTypeOK, Status
<1>2. TypeOK
  BY <1>1 DEF TypeOK
<1>3. EngineInv
  BY DEF EngineInv, UnbuiltIsAbsent, BuiltIsFenced, WritersContiguous, Built
<1>4. ObjectInv
  BY DEF ObjectInv, CallInv, AckedDurable, AckedPuts, Ok
<1>5. QED BY <1>2, <1>3, <1>4 DEF IInv

\* Every step keeps the inductive invariant.
LEMMA NextInv == IInv /\ [Next]_vars => IInv'
<1> SUFFICES ASSUME IInv, [Next]_vars PROVE IInv'
  OBVIOUS
<1>1. EngineTypeOK' /\ EngineInv' /\ Keeps
  BY EngineKept
<1>2. /\ TypeOK'
      /\ active' # None => active' \in Requests /\ status'[active'] # "unused"
      /\ \A q \in Requests : CallInv(q)'
  BY <1>1, CallsInductive
<1>3. AckedDurable'
  <2>1. \A q \in Requests : DurableOk(q) => asked'[q] = asked[q]
    BY DEF DurableOk
  <2>2. QED BY <1>1, <2>1, AckedComes, AckedKeeps, ObjectShares
<1>4. QED BY <1>1, <1>2, <1>3 DEF IInv, ObjectInv

\* The inductive invariant holds in every reachable state.
THEOREM Invariance == Spec => []IInv
BY InitInv, NextInv, PTL DEF Spec

\* Every variable of the object and of the engine keeps its type.
THEOREM TypeCorrect == Spec => []TypeOK
<1>1. IInv => TypeOK
  BY DEF IInv
<1>2. QED BY <1>1, Invariance, PTL

\* Whatever requests, reopens, failures and evictions happen, two Dbs never
\* interleave their objects in one log: the conditional create of R2Store
\* (r2_store.rs:482) makes SlateDB's fence hold.
THEOREM SingleWriter == Spec => []WritersContiguous
<1>1. IInv => WritersContiguous
  BY DEF IInv, EngineInv
<1>2. QED BY <1>1, Invariance, PTL

\* A put or delete answered with ok is in R2 in every later state.
THEOREM AcknowledgedWritesSurvive == Spec => []AckedDurable
<1>1. IInv => AckedDurable
  BY DEF IInv, ObjectInv
<1>2. QED BY <1>1, Invariance, PTL

\* No step removes or rewrites a WAL object.
THEOREM NothingIsRewritten == Spec => LogOnlyGrows
<1>1. IInv /\ [Next]_vars =>
        [\A n \in Names : \A i \in DOMAIN wal[n] :
            i \in DOMAIN wal'[n] /\ wal'[n][i] = wal[n][i]]_vars
  BY EngineKept DEF Keeps
<1>2. QED BY <1>1, Invariance, PTL DEF Spec, LogOnlyGrows

----------------------------------------------------------------------------
(***************************************************************************)
(* The mutex: whoever opens or closes a Db holds it, nothing is installed  *)
(* meanwhile, and every Db that runs has an owner.                         *)
(***************************************************************************)
Holding == {"opening", "closing", "removing"}

Owned(d) ==
    \/ active = d
    \/ lock = d /\ pc[d] = "opening"
    \/ lock # None /\ pc[lock] = "closing" /\ held[lock] = d

MutexInv ==
    /\ \A d \in Requests : status[d] \in Live /\ d \notin orphans => Owned(d)
    /\ lock # None => active = None /\ pc[lock] \in Holding
    /\ \A r \in Requests : pc[r] \in Holding => lock = r

\* A step that starts no Db and touches neither the mutex nor its holder.
LEMMA UnlockedKeeps ==
    ASSUME Shared, MutexInv, UNCHANGED <<active, lock, orphans>>,
           \A d \in Requests : status'[d] \in Live => status[d] \in Live,
           \A q \in Requests :
             \/ pc'[q] = pc[q] /\ held'[q] = held[q]
             \/ pc[q] \notin Holding /\ pc'[q] \notin Holding
    PROVE  MutexInv'
<1>1. lock \in Requests \cup {None}
  BY DEF Shared
<1>2. lock # None => pc'[lock] = pc[lock] /\ held'[lock] = held[lock]
  BY <1>1 DEF MutexInv
<1>3. \A d \in Requests : Owned(d) => Owned(d)'
  BY <1>2, NoneAssumption DEF Owned
<1>4. QED BY <1>2, <1>3 DEF MutexInv

\* A step of the engine leaves every running Db its owner.
LEMMA EngineOwned ==
    ASSUME Shared, MutexInv, NEW e \in Requests, Engine(e)
    PROVE  MutexInv'
<1>1. status \in [Requests -> Status]
  BY DEF Shared, ObjectInv, EngineTypeOK
<1>2. \/ status' = status
      \/ status[e] = "building" /\ status' = [status EXCEPT ![e] = "open"]
      \/ \E s \in {"failed", "closed"} : status' = [status EXCEPT ![e] = s]
  BY DEF Engine, EngineStep, Progress, BuildOk, BuildErr, Flush, Fenced, Breaks, CloseOk
<1>3. \A d \in Requests : status'[d] \in Live => status[d] \in Live
  BY <1>1, <1>2 DEF Live
<1>4. QED BY <1>3, UnlockedKeeps DEF Engine, object, calls

\* The steps of a request that does not hold the mutex and does not take it.
LEMMA BystanderOwned ==
    ASSUME Shared, MutexInv, NEW r \in Requests,
           \/ DatabaseWrongName(r) \/ DatabaseOpen(r) \/ Stats(r)
           \/ Put(r) \/ DurableOk(r) \/ FlushCall(r) \/ Get(r)
           \/ (\E c \in Clients : BenchPut(r, c)) \/ BenchOk(r) \/ BenchErr(r)
           \/ CallErr(r)
    PROVE  MutexInv'
<1> USE DEF DatabaseWrongName, DatabaseOpen, Stats, Put, DurableOk, FlushCall, Get,
            BenchPut, BenchOk, BenchErr, CallErr
<1>1. pc \in [Requests -> Places]
      /\ held \in [Requests -> Requests \cup {None}]
  BY DEF Shared
<1>2. UNCHANGED <<active, lock, orphans, status>>
  BY DEF object, engine, Accept
<1>3. pc[r] \in {"lock", "call", "sent"}
  OBVIOUS
<1>4. pc' = pc \/ Go(r, "error") \/ Go(r, "call") \/ Go(r, "ok") \/ Go(r, "sent")
  OBVIOUS
<1>5. held' = held \/ held' = [held EXCEPT ![r] = active]
  OBVIOUS
<1>6. pc[r] \notin Holding /\ pc'[r] \notin Holding
  BY <1>1, <1>3, <1>4 DEF Go, Holding
<1>7. \A q \in Requests : q # r => pc'[q] = pc[q] /\ held'[q] = held[q]
  BY <1>1, <1>4, <1>5 DEF Go
<1>8. QED BY <1>2, <1>6, <1>7, UnlockedKeeps

\* With no Db running, a request takes the mutex and opens one.
LEMMA OpeningOwned ==
    ASSUME Shared, MutexInv, NEW r \in Requests,
           DatabaseOpening(r) \/ (Reopen(r) /\ active = None) \/ ReopenClosed(r)
    PROVE  MutexInv'
<1>0. /\ pc \in [Requests -> Places]
      /\ status \in [Requests -> Status]
      /\ lock \in Requests \cup {None}
  BY DEF Shared, ObjectInv, EngineTypeOK
<1>1. active = None /\ lock \in {None, r}
  BY NoneAssumption DEF MutexInv, DatabaseOpening, Reopen, ReopenClosed, Holding
<1>2. \A q \in Requests : q # r => pc[q] \notin Holding
  BY <1>1, NoneAssumption DEF MutexInv
<1>3. \A d \in Requests : status[d] \in Live => d \in orphans
  <2>1. ASSUME NEW d \in Requests, status[d] \in Live, d \notin orphans PROVE FALSE
    <3>1. Owned(d)
      BY <2>1 DEF MutexInv
    <3>2. lock = r /\ pc[r] = "closing" /\ held[r] = d
      BY <1>1, <3>1, NoneAssumption
         DEF Owned, DatabaseOpening, Reopen, ReopenClosed, MutexInv
    <3>3. status[d] = "closed"
      BY <3>2 DEF DatabaseOpening, Reopen, ReopenClosed
    <3>4. QED BY <2>1, <3>3 DEF Live
  <2>2. QED BY <2>1
<1>4. /\ lock' = r /\ active' = None /\ orphans' = orphans
      /\ status' = [status EXCEPT ![r] = "building"]
      /\ pc' = [pc EXCEPT ![r] = "opening"]
  <2>1. CASE DatabaseOpening(r)
    BY <1>1, <2>1 DEF DatabaseOpening, HoldLock, BuildStart, Go
  <2>2. CASE Reopen(r) /\ active = None
    BY <2>2 DEF Reopen, HoldLock, BuildStart, Go
  <2>3. CASE ReopenClosed(r)
    BY <1>1, <2>3 DEF ReopenClosed, BuildStart, Go, object, MutexInv, Holding
  <2>4. QED BY <2>1, <2>2, <2>3
<1>5. /\ pc'[r] = "opening"
      /\ \A q \in Requests : q # r => pc'[q] = pc[q] /\ status'[q] = status[q]
  BY <1>0, <1>4
<1>6. QED BY <1>2, <1>3, <1>4, <1>5 DEF MutexInv, Owned, Holding

\* reopen() takes the installed Db out, and closes it under the mutex.
LEMMA ClosingOwned ==
    ASSUME Shared, MutexInv, NEW r \in Requests, Reopen(r), active # None
    PROVE  MutexInv'
<1>0. /\ pc \in [Requests -> Places]
      /\ held \in [Requests -> Requests \cup {None}]
      /\ status \in [Requests -> Status] /\ active \in Requests
  BY DEF Shared, ObjectInv, EngineTypeOK
<1>1. /\ lock = None /\ lock' = r /\ active' = None /\ orphans' = orphans
      /\ pc'[r] = "closing" /\ held'[r] = active
      /\ \A q \in Requests : q # r => pc'[q] = pc[q]
      /\ \A d \in Requests : status'[d] \in Live => status[d] \in Live
  BY <1>0 DEF Reopen, HoldLock, Go, CloseStart, Live
<1>2. \A q \in Requests : pc[q] \notin Holding
  BY <1>1, NoneAssumption DEF MutexInv
<1>3. \A d \in Requests : status[d] \in Live /\ d \notin orphans => d = active
  BY <1>1, NoneAssumption DEF MutexInv, Owned
<1>4. QED BY <1>1, <1>2, <1>3, NoneAssumption DEF MutexInv, Owned, Holding

\* The mutex is released: with a Db installed, or with none left running.
LEMMA ReleaseOwned ==
    ASSUME Shared, MutexInv, NEW r \in Requests,
           ReopenCloseErr(r) \/ Installed(r) \/ OpenErr(r)
    PROVE  MutexInv'
<1>0. /\ pc \in [Requests -> Places]
      /\ lock \in Requests \cup {None}
  BY DEF Shared
<1>1. /\ pc[r] \in Holding /\ lock = r /\ active = None
  BY NoneAssumption DEF MutexInv, ReopenCloseErr, Installed, OpenErr, Holding
<1>2. /\ lock' = None /\ orphans' = orphans /\ status' = status
      /\ \/ Go(r, "error") \/ Go(r, "call") \/ Go(r, "ok")
  BY DEF ReopenCloseErr, Installed, OpenErr, engine
<1>3. \A q \in Requests : pc'[q] \notin Holding
  <2>1. pc'[r] \notin Holding
    BY <1>0, <1>2 DEF Go, Holding
  <2>2. \A q \in Requests : q # r => pc'[q] = pc[q]
    BY <1>0, <1>2 DEF Go
  <2>3. QED BY <1>1, <2>1, <2>2 DEF MutexInv
<1>4. ASSUME NEW d \in Requests, status[d] \in Live, d \notin orphans
      PROVE  active' = d
  <2>1. \/ d = r /\ pc[r] = "opening"
        \/ pc[r] = "closing" /\ held[r] = d
    BY <1>1, <1>4, NoneAssumption DEF MutexInv, Owned
  <2>2. QED BY <1>4, <2>1 DEF ReopenCloseErr, Installed, OpenErr, Live
<1>5. QED BY <1>2, <1>3, <1>4 DEF MutexInv, Owned

\* Eviction leaves only Dbs of a lost object running.
LEMMA EvictOwned ==
    ASSUME IInv, Evict
    PROVE  MutexInv'
<1>1. \A q \in Requests : pc'[q] \notin Holding
  BY DEF Evict, Waiting, Holding, Answered, IInv, TypeOK
<1>2. \A d \in Requests : status'[d] \in Live => d \in orphans'
  BY DEF Evict, engine, Live
<1>3. QED BY <1>1, <1>2 DEF Evict, MutexInv

\* Every step keeps the mutex's invariant.
LEMMA MutexInductive == IInv /\ MutexInv /\ [Next]_vars => MutexInv'
<1> SUFFICES ASSUME IInv, MutexInv, [Next]_vars PROVE MutexInv'
  OBVIOUS
<1>1. ASSUME NEW r \in Requests, NEW k \in Kinds, NEW n \in Names, Start(r, k, n)
      PROVE  MutexInv'
  <2>1. /\ UNCHANGED <<active, lock, orphans, status, held>>
        /\ pc[r] = "new" /\ pc' = [pc EXCEPT ![r] = "lock"]
    BY <1>1 DEF Start, Go, engine, object
  <2>2. \A q \in Requests : pc'[q] = pc[q] \/ (pc[q] = "new" /\ pc'[q] = "lock")
    BY <2>1 DEF IInv, TypeOK
  <2>3. QED BY <2>1, <2>2, UnlockedKeeps, ObjectShares DEF Holding
<1>2. ASSUME NEW r \in Requests, Handle(r)
      PROVE  MutexInv'
  BY <1>2, BystanderOwned, OpeningOwned, ClosingOwned, ReleaseOwned,
     ObjectShares DEF Handle
<1>3. CASE UNCHANGED vars
  BY <1>3, UnlockedKeeps, ObjectShares DEF vars, engine, object, calls
<1>4. QED BY <1>1, <1>2, <1>3, EngineOwned, EvictOwned, ObjectShares DEF Next, Quiescent

\* A Db's place in the log moves forward, and only while it is running; its
\* name is given before it has a place.
LEMMA NextMoves ==
    ASSUME EngineRuns, NEW e \in Requests
    PROVE  /\ next[e] \in Nat /\ next'[e] \in Nat /\ next[e] <= next'[e]
           /\ next'[e] # next[e] => status[e] \in Live
           /\ name'[e] # name[e] => next'[e] = 0
<1> DEFINE Goal ==
             /\ next[e] \in Nat /\ next'[e] \in Nat /\ next[e] <= next'[e]
             /\ next'[e] # next[e] => status[e] \in Live
             /\ name'[e] # name[e] => next'[e] = 0
<1>0. /\ EngineTypeOK /\ EngineInv
      /\ next \in [Requests -> Nat]
      /\ status[e] \in {"unused", "building"} => next[e] = 0
  BY DEF EngineRuns, EngineTypeOK, EngineInv, UnbuiltIsAbsent, Built
<1>1. CASE UNCHANGED engine
  BY <1>0, <1>1 DEF engine
<1>2. ASSUME NEW d \in Requests, EngineAny(d)
      PROVE  Goal
  <2>1. Moves(d) /\ (Quiet \/ Fences(d) \/ Extends(d))
    BY <1>0, <1>2, EngineShape
  <2>2. CASE e # d
    BY <1>0, <2>1, <2>2 DEF Moves
  <2>3. CASE e = d /\ Quiet
    BY <1>0, <2>1, <2>3 DEF Moves, Quiet
  <2>4. CASE e = d /\ Fences(d)
    <3>1. name[d] \in Names /\ Len(wal[name[d]]) \in Nat
      BY <1>0, <2>4, LenProperties DEF Fences, EngineInv, EngineTypeOK
    <3>2. next'[e] = next[e] \/ next'[e] = Len(wal[name[d]]) + 2
      BY <1>0, <2>4 DEF Fences
    <3>3. QED BY <1>0, <2>1, <2>4, <3>1, <3>2 DEF Fences, Moves, Live
  <2>5. CASE e = d /\ Extends(d)
    <3>1. next'[e] = next[e] \/ next'[e] = next[e] + 1
      BY <1>0, <2>5 DEF Extends
    <3>2. QED BY <1>0, <2>1, <2>5, <3>1 DEF Extends, Moves, Live
  <2>6. QED BY <2>1, <2>2, <2>3, <2>4, <2>5
<1>3. QED BY <1>1, <1>2 DEF EngineRuns, EngineMoves

\* What is installed did open.
LEMMA InstalledBuilt ==
    ASSUME IInv, [Next]_vars, active # None => Built(active)
    PROVE  active' # None => Built(active)'
<1>1. \A d \in Requests : Built(d) => Built(d)'
  BY NextMoves, ObjectRuns DEF Built
<1>2. \/ active' = active \/ active' = None
      \/ \E r \in Requests : active' = r /\ Built(r)
  <2> USE DEF vars, object
  <2>1. ASSUME NEW r \in Requests, Handle(r)
        PROVE  \/ active' = active \/ active' = None
               \/ active' = r /\ Built(r)
    BY <2>1 DEF Handle, DatabaseWrongName, DatabaseOpen, DatabaseOpening, Reopen,
       ReopenClosed, ReopenCloseErr, Installed, OpenErr, Stats, Put, DurableOk,
       FlushCall, Get, BenchPut, BenchOk, BenchErr, CallErr
  <2>2. QED BY <2>1 DEF Next, Start, Engine, Evict, Quiescent
<1>3. active \in Requests \cup {None}
  BY ObjectShares DEF Shared
<1>4. CASE active' = active
  BY <1>1, <1>3, <1>4 DEF Built
<1>5. CASE \E r \in Requests : active' = r /\ Built(r)
  BY <1>1, <1>5 DEF Built
<1>6. QED BY <1>2, <1>4, <1>5

\* One object never runs two Dbs, and forgets none that runs: the async mutex of
\* lib.rs is held across every await between taking a Db out and installing one.
THEOREM OneLiveDb == Spec => []LiveDbOwned
<1> DEFINE InstalledDidOpen == active # None => Built(active)
<1>1. Init => MutexInv /\ InstalledDidOpen
  BY DEF Init, EngineInit, MutexInv, Holding, Live
<1>2. IInv /\ MutexInv /\ InstalledDidOpen => LiveDbOwned
  <2> SUFFICES ASSUME IInv, MutexInv, InstalledDidOpen PROVE LiveDbOwned
    OBVIOUS
  <2>1. \A d, e \in Requests : Owned(d) /\ Owned(e) => d = e
    BY NoneAssumption DEF MutexInv, Owned
  <2>2. QED BY <2>1 DEF MutexInv, LiveDbOwned, Owned
<1>3. IInv /\ InstalledDidOpen /\ [Next]_vars => InstalledDidOpen'
  BY InstalledBuilt
<1>4. QED BY <1>1, <1>2, <1>3, InitInv, NextInv, MutexInductive, PTL DEF Spec
=============================================================================
