-------------------------- MODULE SlateDbDataProofs --------------------------
(***************************************************************************)
(* What requests write and read, for any number of requests, streams and   *)
(* names, in five parts.  The log: what callers see of the Dbs is WriteLog *)
(* and no database's writes reach another's log; nothing here rests on the *)
(* mutex, so the container uses this part too.  Real time: an answered put *)
(* is in a log that takes no write twice, so what begins later stands      *)
(* behind it.  Reads: the mutex (MutexInv of SlateDbObjectProofs) keeps    *)
(* one Db running, and a Db that opens starts after all that is in the     *)
(* log.  Scans: the loop of the route leaves out a key only when it says   *)
(* so.  The drain: a flush drains the one Db that can still hold a batch's *)
(* writes.                                                                 *)
(***************************************************************************)
EXTENDS ScanRoute, SlateDbObjectProofs, FiniteSetTheorems

(***************************************************************************)
(* The log.  A write is handed to one Db, by its own call and once: from   *)
(* then on its request waits for it (want), and keeps the Db (held).  So   *)
(* it is in the buffer of no other Db; and while that Db can still write   *)
(* its buffer, it has not written this write before.                       *)
(***************************************************************************)
\* A log gains only what a Db of its name had buffered.
LEMMA DurableComes ==
    ASSUME EngineRuns, NEW n \in Names, NEW w \in Durable(n)'
    PROVE  w \in Durable(n) \/ \E d \in Requests : name[d] = n /\ w \in buffer[d]
<1>0. EngineTypeOK /\ EngineInv
  BY DEF EngineRuns
<1>1. CASE UNCHANGED wal
  BY <1>1 DEF Durable
<1>2. ASSUME NEW d \in Requests, NEW ws \in SUBSET Writes, Appends(name[d], d, ws),
             name[d] \in Names, ws \subseteq buffer[d]
      PROVE  w \in Durable(n) \/ \E e \in Requests : name[e] = n /\ w \in buffer[e]
  <2>1. Appended(name[d], d, ws)
    BY <1>0, <1>2, AppendShape
  <2>2. PICK i \in DOMAIN wal'[n] : w \in wal'[n][i].writes
    BY DEF Durable
  <2>3. CASE n # name[d]
    BY <2>1, <2>2, <2>3 DEF Appended, Durable
  <2>4. CASE n = name[d] /\ i \in DOMAIN wal[n]
    BY <2>1, <2>2, <2>4 DEF Appended, Durable
  <2>5. CASE n = name[d] /\ i = Len(wal[n]) + 1
    BY <1>2, <2>1, <2>2, <2>5 DEF Appended
  <2>6. QED BY <2>1, <2>2, <2>3, <2>4, <2>5 DEF Appended
<1>3. ASSUME NEW d \in Requests, EngineAny(d)
      PROVE  w \in Durable(n) \/ \E e \in Requests : name[e] = n /\ w \in buffer[e]
  <2>1. Quiet \/ Fences(d) \/ Extends(d)
    BY <1>0, <1>3, EngineShape
  <2>2. /\ {} \in SUBSET Writes /\ buffer[d] \in SUBSET Writes
        /\ status[d] # "unused" => name[d] \in Names
    BY <1>0 DEF EngineTypeOK, EngineInv
  <2>3. CASE Quiet
    BY <1>1, <2>3 DEF Quiet
  <2>4. CASE Fences(d)
    BY <1>2, <2>2, <2>4 DEF Fences
  <2>5. CASE Extends(d)
    BY <1>2, <2>2, <2>5 DEF Extends
  <2>6. QED BY <2>1, <2>3, <2>4, <2>5
<1>4. CASE UNCHANGED engine
  BY <1>1, <1>4 DEF engine
<1>5. QED BY <1>3, <1>4 DEF EngineRuns, EngineMoves

\* What enters a log is the buffer of one running Db, which then lets go of it:
\* the buffer is emptied, or the Db has failed.
Moved(d) ==
    /\ name[d] \in Names /\ status[d] \in Live
    /\ \E ws \in SUBSET buffer[d] :
         /\ Appended(name[d], d, ws)
         /\ ws = {} \/ buffer'[d] = {} \/ status'[d] = "failed"

\* Every step leaves the logs alone or moves one Db's writes into its log.
LEMMA LogMoves ==
    ASSUME EngineRuns
    PROVE  UNCHANGED wal \/ \E d \in Requests : Moved(d)
<1>0. EngineTypeOK /\ EngineInv
  BY DEF EngineRuns
<1>1. ASSUME NEW d \in Requests, EngineAny(d)
      PROVE  UNCHANGED wal \/ Moved(d)
  <2>1. Quiet \/ Fences(d) \/ Extends(d)
    BY <1>0, <1>1, EngineShape
  <2>2. /\ {} \in SUBSET Writes /\ buffer[d] \in SUBSET Writes
        /\ status[d] # "unused" => name[d] \in Names
        /\ next[d] \in Nat /\ next \in [Requests -> Nat]
        /\ buffer \in [Requests -> SUBSET Writes]
    BY <1>0 DEF EngineTypeOK, EngineInv
  <2>3. CASE Quiet
    BY <2>3 DEF Quiet
  <2>4. CASE Fences(d)
    <3>1. name[d] \in Names /\ status[d] \in Live
      BY <2>2, <2>4 DEF Fences, Live
    <3>2. Appended(name[d], d, {})
      BY <1>0, <2>2, <2>4, <3>1, AppendShape DEF Fences
    <3>3. QED BY <3>1, <3>2 DEF Moved
  <2>5. CASE Extends(d)
    <3>1. name[d] \in Names /\ status[d] \in Live
      BY <2>2, <2>5 DEF Extends, Live
    <3>2. Appended(name[d], d, buffer[d])
      BY <1>0, <2>2, <2>5, <3>1, AppendShape DEF Extends
    <3>3. buffer'[d] = {} \/ status'[d] = "failed"
      <4>1. CASE next' = [next EXCEPT ![d] = @ + 1]
        <5>1. next'[d] # next[d]
          BY <2>2, <4>1
        <5>2. BuildOk(d) \/ Flush(d)
          BY <1>1, <5>1 DEF EngineAny, BuildStart, Accept, CloseStart, EngineStep,
                            Progress, BuildErr, Fenced, Breaks, CloseOk
        <5>3. Flush(d)
          BY <2>5, <5>2 DEF Extends, BuildOk
        <5>4. QED BY <2>2, <5>3 DEF Flush
      <4>2. QED BY <2>5, <4>1 DEF Extends
    <3>4. QED BY <3>1, <3>2, <3>3 DEF Moved
  <2>6. QED BY <2>1, <2>3, <2>4, <2>5
<1>2. CASE UNCHANGED engine
  BY <1>2 DEF engine
<1>3. QED BY <1>1, <1>2 DEF EngineRuns, EngineMoves

\* A Db that is closed or has failed stays so.
LEMMA StoppedStays ==
    ASSUME EngineRuns, NEW d \in Requests, status[d] \in {"closed", "failed"}
    PROVE  status'[d] = status[d]
<1>0. status \in [Requests -> Status]
  BY DEF EngineRuns, EngineTypeOK
<1>1. CASE UNCHANGED engine
  BY <1>1 DEF engine
<1>2. ASSUME NEW e \in Requests, EngineAny(e)
      PROVE  status'[d] = status[d]
  <2>1. CASE e = d
    BY <1>0, <1>2, <2>1
       DEF EngineAny, BuildStart, Accept, CloseStart, EngineStep, Progress, BuildOk,
           BuildErr, Flush, Fenced, Breaks, CloseOk
  <2>2. CASE e # d
    <3>1. EngineTypeOK /\ EngineInv
      BY DEF EngineRuns
    <3>2. Moves(e)
      BY <1>2, <3>1, EngineShape
    <3>3. QED BY <2>2, <3>2 DEF Moves
  <2>3. QED BY <2>1, <2>2
<1>3. QED BY <1>1, <1>2 DEF EngineRuns, EngineMoves

\* A write enters a log from the buffer of a running Db that lets go of it.
LEMMA WriteEnters ==
    ASSUME EngineRuns, NEW n \in Names, NEW w \in Durable(n)', w \notin Durable(n)
    PROVE  \E d \in Requests : /\ status[d] \in Live /\ w \in buffer[d]
                               /\ buffer'[d] = {} \/ status'[d] = "failed"
<1>1. PICK i \in DOMAIN wal'[n] : w \in wal'[n][i].writes
  BY DEF Durable
<1>2. ~(i \in DOMAIN wal[n] /\ wal'[n][i] = wal[n][i])
  BY <1>1 DEF Durable
<1>3. PICK d \in Requests : Moved(d)
  BY <1>1, <1>2, LogMoves
<1>4. PICK ws \in SUBSET buffer[d] :
        /\ Appended(name[d], d, ws)
        /\ ws = {} \/ buffer'[d] = {} \/ status'[d] = "failed"
  BY <1>3 DEF Moved
<1>5. n = name[d] /\ i = Len(wal[n]) + 1
  BY <1>1, <1>2, <1>4 DEF Appended
<1>6. w \in ws
  BY <1>1, <1>4, <1>5 DEF Appended
<1>7. QED BY <1>3, <1>4, <1>6 DEF Moved

Early == {"new", "lock", "opening", "closing", "removing"}

\* Once a request has a Db it keeps it, and only its own call changes what it
\* waits for.
WantKept(q) ==
    /\ pc[q] \notin Early => held'[q] = held[q] /\ pc'[q] \notin Early
    /\ want'[q] = want[q] \/ Put(q) \/ FlushCall(q) \/ \E c \in Clients : BenchPut(q, c)

\* The handlers do so.
LEMMA HandleWants ==
    ASSUME Shared, Keeps, NEW r \in Requests, Handle(r), NEW q \in Requests
    PROVE  WantKept(q)
<1>1. CASE q # r
  BY <1>1, HandleKeeps DEF Kept, OnlyMoves, WantKept
<1>2. want' = want \/ Put(r) \/ FlushCall(r) \/ \E c \in Clients : BenchPut(r, c)
  BY DEF Handle, DatabaseWrongName, DatabaseOpen, DatabaseOpening, Reopen,
         ReopenClosed, ReopenCloseErr, Installed, OpenErr, Stats, DurableOk,
         Get, BenchOk, BenchErr, CallErr
<1>3. pc[r] \notin Early => held' = held
  BY DEF Handle, DatabaseWrongName, DatabaseOpen, DatabaseOpening, Reopen,
         ReopenClosed, ReopenCloseErr, Installed, OpenErr, Stats, Put, DurableOk,
         FlushCall, Get, BenchPut, BenchOk, BenchErr, CallErr, Early
<1>4. pc[r] \notin Early => pc' = pc \/ Go(r, "ok") \/ Go(r, "error") \/ Go(r, "sent")
  BY DEF Handle, DatabaseWrongName, DatabaseOpen, DatabaseOpening, Reopen,
         ReopenClosed, ReopenCloseErr, Installed, OpenErr, Stats, Put, DurableOk,
         FlushCall, Get, BenchPut, BenchOk, BenchErr, CallErr, Early
<1>5. pc[r] \notin Early => pc'[r] \notin Early
  BY <1>4 DEF Go, Early, Shared
<1>6. QED BY <1>1, <1>2, <1>3, <1>5 DEF WantKept

\* So does every step of the object.
LEMMA WantMoves ==
    ASSUME IInv, [Next]_vars, NEW q \in Requests
    PROVE  WantKept(q)
<1>0. pc \in [Requests -> {"new"} \cup Waiting \cup Answered]
  BY DEF IInv, TypeOK
<1>1. ASSUME NEW r \in Requests, NEW k \in Kinds, NEW n \in Names, Start(r, k, n)
      PROVE  WantKept(q)
  BY <1>0, <1>1 DEF Start, Go, Early, WantKept
<1>2. ASSUME NEW r \in Requests, Handle(r)
      PROVE  WantKept(q)
  BY <1>2, HandleWants, EngineKept, ObjectShares
<1>3. CASE UNCHANGED <<object, calls>>
  BY <1>3 DEF calls, WantKept
<1>4. CASE Evict
  BY <1>0, <1>4 DEF Evict, Early, WantKept
<1>5. QED BY <1>1, <1>2, <1>3, <1>4 DEF Next, Engine, Quiescent, vars

Sent(w) ==
    /\ w \in Writes /\ pc[w[1]] \notin Early
    /\ kind[w[1]] \in {"put", "bench"} /\ w \in want[w[1]]

\* What a request that has sent nothing, or a put that has sent its write, wants.
WantInv(r) ==
    /\ pc[r] = "new" => asked[r] = None /\ kind[r] = None
    /\ pc[r] \in Early => want[r] = {}
    /\ kind[r] = "put" => want[r] \subseteq {<<r, OneClient>>}
    /\ kind[r] = "put" /\ pc[r] = "call" => want[r] = {}

BufferedInv(w, d) ==
    /\ Sent(w) /\ held[w[1]] = d
    /\ status[d] # "unused" /\ asked[w[1]] = name[d]
    /\ status[d] \in Live => \A n \in Names : w \notin Durable(n)

LogInv ==
    /\ \A r \in Requests : WantInv(r)
    /\ \A d \in Requests : \A w \in buffer[d] : BufferedInv(w, d)
    /\ \A n \in Names : \A w \in Durable(n) : Sent(w) /\ asked[w[1]] = n

\* What a step of either service does to a request, and to the buffers.
CallStep(q) ==
    /\ WantKept(q)
    /\ pc[q] # "new" => pc'[q] # "new" /\ kind'[q] = kind[q] /\ asked'[q] = asked[q]
    /\ pc'[q] = "new" => kind'[q] = kind[q] /\ asked'[q] = asked[q]
    /\ pc'[q] = "call" => pc[q] \in Early \cup {"call"}

Hands(w) ==
    \/ Put(w[1]) /\ w = <<w[1], OneClient>>
    \/ w[2] \in Clients /\ BenchPut(w[1], w[2]) /\ w = <<w[1], w[2]>>

BufferStep ==
    \A d \in Requests : \A w \in buffer'[d] :
        w \in buffer[d] \/ (w[1] \in Requests /\ Hands(w) /\ held[w[1]] = d)

\* A write that is sent stays so, and is addressed as before.
LEMMA SentStays ==
    ASSUME LogInv, \A q \in Requests : CallStep(q), NEW w, Sent(w)
    PROVE  Sent(w)' /\ held'[w[1]] = held[w[1]] /\ asked'[w[1]] = asked[w[1]]
<1>1. PICK r \in Requests : r = w[1]
  BY DEF Sent, Writes
<1>2. /\ pc[r] \notin Early /\ pc[r] # "new" /\ kind[r] \in {"put", "bench"}
      /\ w \in want[r] /\ CallStep(r) /\ WantInv(r)
  BY <1>1 DEF Sent, LogInv, Early
<1>3. w \in want'[r]
  <2>1. ~Put(r) /\ ~FlushCall(r)
    BY <1>2 DEF WantInv, Put, FlushCall
  <2>2. CASE \E c \in Clients : BenchPut(r, c)
    <3>1. PICK c \in Clients : want' = [want EXCEPT ![r] = want[r] \cup {<<r, c>>}]
      BY <2>2 DEF BenchPut
    <3>2. QED BY <1>2, <3>1
  <2>3. QED BY <1>2, <2>1, <2>2 DEF CallStep, WantKept
<1>4. pc'[r] \notin Early /\ kind'[r] = kind[r] /\ asked'[r] = asked[r] /\ held'[r] = held[r]
  BY <1>2 DEF CallStep, WantKept
<1>5. QED BY <1>1, <1>2, <1>3, <1>4 DEF Sent

\* What a request wants follows its calls.
LEMMA WantInductive ==
    ASSUME Shared, NEW q \in Requests, CallStep(q), WantInv(q)
    PROVE  WantInv(q)'
<1>0. pc \in [Requests -> Places] /\ want \in [Requests -> SUBSET Writes]
  BY DEF Shared
<1>1. want'[q] = want[q] \/ pc[q] = "call"
  BY DEF CallStep, WantKept, Put, FlushCall, BenchPut
<1>2. pc'[q] = "new" => asked'[q] = None /\ kind'[q] = None
  BY DEF CallStep, WantInv
<1>3. pc'[q] \in Early => pc[q] \in Early /\ want'[q] = {}
  BY <1>1 DEF CallStep, WantKept, WantInv, Early
<1>4. ASSUME kind'[q] = "put"
      PROVE  /\ want'[q] \subseteq {<<q, OneClient>>}
             /\ pc'[q] = "call" => want'[q] = {}
  <2>1. CASE pc[q] \in Early
    BY <1>1, <2>1 DEF WantInv, Early
  <2>2. CASE pc[q] \notin Early
    <3>1. kind[q] = "put"
      BY <1>4, <2>2 DEF CallStep, Early
    <3>2. CASE Put(q)
      <4>1. want'[q] = {<<q, OneClient>>} /\ pc'[q] = "sent"
        BY <1>0, <3>2 DEF Put, Go
      <4>2. QED BY <4>1
    <3>3. CASE ~Put(q)
      <4>1. want'[q] = want[q]
        BY <3>1, <3>3 DEF CallStep, WantKept, FlushCall, BenchPut
      <4>2. QED BY <2>2, <3>1, <4>1 DEF WantInv, CallStep
    <3>4. QED BY <3>2, <3>3
  <2>3. QED BY <2>1, <2>2
<1>5. QED BY <1>2, <1>3, <1>4 DEF WantInv

\* A write that is handed over was nowhere, and is now in one buffer.
LEMMA HandedOver ==
    ASSUME Shared, LogInv, EngineRuns, Keeps, \A q \in Requests : CallStep(q),
           NEW d \in Requests, NEW w, w[1] \in Requests, Hands(w), held[w[1]] = d
    PROVE  BufferedInv(w, d)'
<1> DEFINE r == w[1]
<1>0. want \in [Requests -> SUBSET Writes] /\ pc \in [Requests -> Places]
  BY DEF Shared
<1>1. /\ pc[r] = "call" /\ kind[r] \in {"put", "bench"} /\ w \in Writes
      /\ w \notin want[r] /\ w \in want'[r]
  <2>1. CASE Put(r) /\ w = <<r, OneClient>>
    BY <1>0, <2>1, OneClientAssumption DEF Put, LogInv, WantInv, Writes
  <2>2. CASE w[2] \in Clients /\ BenchPut(r, w[2]) /\ w = <<r, w[2]>>
    BY <1>0, <2>2 DEF BenchPut, Writes
  <2>3. QED BY <2>1, <2>2 DEF Hands
<1>2. /\ CallInv(r) /\ CallStep(r)
  BY DEF Shared, ObjectInv
<1>3. Sent(w)' /\ held'[r] = d /\ asked'[r] = asked[r]
  BY <1>1, <1>2 DEF CallStep, WantKept, Early, Sent
<1>4. status'[d] # "unused" /\ asked'[r] = name'[d]
  BY <1>1, <1>2, <1>3 DEF CallInv, Keeps
<1>5. ASSUME NEW n \in Names, w \in Durable(n)' PROVE FALSE
  <2>1. ~Sent(w)
    BY <1>1 DEF Sent
  <2>2. w \notin Durable(n) /\ \A e \in Requests : w \notin buffer[e]
    BY <2>1 DEF LogInv, BufferedInv
  <2>3. QED BY <1>5, <2>2, WriteEnters
<1>6. \A n \in Names : w \notin Durable(n)'
  BY <1>5
<1>7. QED BY <1>3, <1>4, <1>6 DEF BufferedInv, Durable

\* A buffered write stays in its one buffer, and in no log while the Db runs.
LEMMA BufferedStays ==
    ASSUME LogInv, EngineRuns, Keeps, \A q \in Requests : CallStep(q),
           NEW d \in Requests, NEW w \in buffer[d], w \in buffer'[d]
    PROVE  BufferedInv(w, d)'
<1>1. BufferedInv(w, d)
  BY DEF LogInv
<1>2. Sent(w)' /\ held'[w[1]] = d /\ asked'[w[1]] = asked[w[1]]
  BY <1>1, SentStays DEF BufferedInv
<1>3. status'[d] # "unused" /\ asked'[w[1]] = name'[d]
  BY <1>1, <1>2 DEF BufferedInv, Keeps
<1>4. ASSUME status'[d] \in Live, NEW n \in Names, w \in Durable(n)' PROVE FALSE
  <2>1. status[d] \in Live
    <3>1. status[d] \notin {"closed", "failed"}
      BY <1>4, StoppedStays DEF Live
    <3>2. QED BY <1>1, <3>1 DEF BufferedInv, Live, Status, EngineRuns, EngineTypeOK
  <2>2. PICK e \in Requests : w \in buffer[e] /\ (buffer'[e] = {} \/ status'[e] = "failed")
    BY <1>1, <1>4, <2>1, WriteEnters DEF BufferedInv
  <2>3. e = d
    BY <1>1, <2>2 DEF LogInv, BufferedInv
  <2>4. QED BY <1>4, <2>2, <2>3 DEF Live
<1>5. status'[d] \in Live => \A n \in Names : w \notin Durable(n)'
  BY <1>4
<1>6. QED BY <1>2, <1>3, <1>5 DEF BufferedInv, Durable

\* Steps of either service keep the log's invariant.
LEMMA LogInductive ==
    ASSUME Shared, LogInv, EngineRuns, Keeps, \A q \in Requests : CallStep(q), BufferStep
    PROVE  LogInv'
<1>1. \A q \in Requests : WantInv(q)'
  BY WantInductive DEF LogInv
<1>2. ASSUME NEW d \in Requests, NEW w \in buffer'[d]
      PROVE  BufferedInv(w, d)'
  BY <1>2, HandedOver, BufferedStays DEF BufferStep
<1>3. ASSUME NEW n \in Names, NEW w \in Durable(n)'
      PROVE  Sent(w)' /\ asked'[w[1]] = n
  <2>1. Sent(w) /\ asked[w[1]] = n
    BY DurableComes DEF LogInv, BufferedInv
  <2>2. QED BY <2>1, SentStays
<1>4. \A n \in Names : \A w \in Durable(n)' : Sent(w)' /\ asked'[w[1]] = n
  BY <1>3
<1>5. \A d \in Requests : \A w \in buffer'[d] : BufferedInv(w, d)'
  BY <1>2
<1>6. QED BY <1>1, <1>4, <1>5 DEF LogInv

\* They turn a request to its call once, and hand over only its own writes.
LEMMA HandleCalls ==
    ASSUME Shared, Keeps, NEW r \in Requests, Handle(r)
    PROVE  (\A q \in Requests : CallStep(q)) /\ BufferStep
<1>0. /\ pc \in [Requests -> Places] /\ buffer \in [Requests -> SUBSET Writes]
  BY DEF Shared, EngineTypeOK
<1>1. /\ kind' = kind /\ asked' = asked
      /\ \A q \in Requests \ {r} : pc'[q] = pc[q]
      /\ pc'[r] \in Waiting \cup Answered
  BY HandleKeeps DEF Kept, OnlyMoves
<1>2. /\ pc[r] \in {"lock", "opening", "closing", "call", "sent"}
      /\ pc[r] = "sent" => Go(r, "ok") \/ Go(r, "error")
  BY DEF Handle, DatabaseWrongName, DatabaseOpen, DatabaseOpening, Reopen,
         ReopenClosed, ReopenCloseErr, Installed, OpenErr, Stats, Put, DurableOk,
         FlushCall, Get, BenchPut, BenchOk, BenchErr, CallErr
<1>3. pc'[r] = "call" => pc[r] \in Early \cup {"call"}
  BY <1>0, <1>2 DEF Go, Early
<1>4. ASSUME NEW q \in Requests PROVE CallStep(q)
  <2>1. WantKept(q)
    BY HandleWants
  <2>2. pc'[q] = "new" => pc[q] = "new"
    BY <1>1 DEF Waiting, Answered
  <2>3. pc[q] # "new" => pc'[q] # "new"
    BY <2>2
  <2>4. QED BY <1>1, <1>3, <2>1, <2>3 DEF CallStep
<1>5. BufferStep
  <2>0. ASSUME NEW c, Accept(held[r], <<r, c>>), Hands(<<r, c>>)
        PROVE  BufferStep
    <3> SUFFICES ASSUME NEW d \in Requests, NEW w \in buffer'[d], w \notin buffer[d]
                 PROVE  w[1] \in Requests /\ Hands(w) /\ held[w[1]] = d
      BY DEF BufferStep
    <3>1. held[r] = d /\ w = <<r, c>>
      BY <1>0, <2>0 DEF Accept
    <3>2. w[1] = r
      BY <3>1
    <3>3. QED BY <2>0, <3>1, <3>2
  <2>1. CASE Put(r)
    <3>1. Accept(held[r], <<r, OneClient>>)
      BY <2>1 DEF Put
    <3>2. Hands(<<r, OneClient>>)
      BY <2>1 DEF Hands
    <3>3. QED BY <2>0, <3>1, <3>2
  <2>2. CASE \E c \in Clients : BenchPut(r, c)
    <3>1. PICK c \in Clients : BenchPut(r, c)
      BY <2>2
    <3>2. Accept(held[r], <<r, c>>)
      BY <3>1 DEF BenchPut
    <3>3. Hands(<<r, c>>)
      BY <3>1 DEF Hands
    <3>4. QED BY <2>0, <3>2, <3>3
  <2>3. CASE ~Put(r) /\ ~(\E c \in Clients : BenchPut(r, c))
    <3>1. UNCHANGED buffer
      BY <2>3
         DEF Handle, DatabaseWrongName, DatabaseOpen, DatabaseOpening, Reopen,
             ReopenClosed, ReopenCloseErr, Installed, OpenErr, Stats, DurableOk,
             FlushCall, Get, BenchOk, BenchErr, CallErr, BuildStart, CloseStart, engine
    <3>2. QED BY <3>1 DEF BufferStep
  <2>4. QED BY <2>1, <2>2, <2>3
<1>6. QED BY <1>4, <1>5

\* So does every step of the object.
LEMMA CallSteps ==
    ASSUME IInv, LogInv, [Next]_vars
    PROVE  (\A q \in Requests : CallStep(q)) /\ BufferStep
<1>0. /\ pc \in [Requests -> {"new"} \cup Waiting \cup Answered]
      /\ buffer \in [Requests -> SUBSET Writes]
      /\ kind \in [Requests -> AllKinds \cup {None}]
      /\ asked \in [Requests -> Names \cup {None}]
  BY DEF IInv, TypeOK, EngineTypeOK
<1>1. ASSUME NEW r \in Requests, NEW k \in Kinds, NEW n \in Names, Start(r, k, n)
      PROVE  (\A q \in Requests : CallStep(q)) /\ BufferStep
  <2>1. BufferStep
    BY <1>1 DEF Start, engine, BufferStep
  <2>2. ASSUME NEW q \in Requests PROVE CallStep(q)
    <3>1. CASE q = r
      BY <1>0, <1>1, <3>1, WantMoves DEF Start, Go, CallStep
    <3>2. CASE q # r
      <4>1. pc'[q] = pc[q] /\ kind'[q] = kind[q] /\ asked'[q] = asked[q]
        BY <1>0, <1>1, <3>2 DEF Start, Go
      <4>2. QED BY <4>1, WantMoves DEF CallStep
    <3>3. QED BY <3>1, <3>2
  <2>3. QED BY <2>1, <2>2
<1>2. ASSUME NEW r \in Requests, Handle(r)
      PROVE  (\A q \in Requests : CallStep(q)) /\ BufferStep
  BY <1>2, HandleCalls, EngineKept, ObjectShares
<1>3. ASSUME NEW d \in Requests, Engine(d)
      PROVE  (\A q \in Requests : CallStep(q)) /\ BufferStep
  <2>1. UNCHANGED buffer \/ buffer' = [buffer EXCEPT ![d] = {}]
    BY <1>3 DEF Engine, EngineStep, Progress, BuildOk, BuildErr, Flush, Fenced, Breaks, CloseOk
  <2>2. BufferStep
    BY <1>0, <2>1 DEF BufferStep
  <2>3. QED BY <1>3, <2>2, WantMoves DEF Engine, calls, CallStep
<1>4. CASE Evict
  <2>1. BufferStep
    BY <1>4 DEF Evict, engine, BufferStep
  <2>2. QED BY <1>0, <1>4, <2>1, WantMoves DEF Evict, CallStep, Waiting
<1>5. CASE UNCHANGED vars
  BY <1>5, WantMoves DEF vars, engine, calls, CallStep, BufferStep
<1>6. QED BY <1>1, <1>2, <1>3, <1>4, <1>5 DEF Next, Quiescent

\* Every step keeps the log's invariant.
LEMMA LogStays == IInv /\ LogInv /\ [Next]_vars => LogInv'
BY CallSteps, LogInductive, EngineKept, ObjectRuns, ObjectShares

\* It holds of an object that has served nothing.
LEMMA LogStarts == Init => LogInv
BY DEF Init, EngineInit, LogInv, WantInv, Durable

\* No write addressed to one database reaches the log of another, however the
\* object is routed, reopened and evicted.
THEOREM DatabasesNeverMix == Spec => []NamesNeverMix
<1>1. LogInv => NamesNeverMix
  BY DEF LogInv, NamesNeverMix
<1>2. QED BY <1>1, InitInv, NextInv, LogStarts, LogStays, PTL DEF Spec

----------------------------------------------------------------------------
(* The steps of either service, as its callers see them. *)

\* Writes addressed to n that are in no log.
Unlogged(n) ==
    {w \in Writes : /\ kind[w[1]] = "bench" \/ (kind[w[1]] = "put" /\ w[2] = OneClient)
                    /\ asked[w[1]] = n
                    /\ \A m \in Names : w \notin Durable(m)}

Commits ==
    \E n \in Names : \E ws \in SUBSET Unlogged(n) :
        Logs' = [Logs EXCEPT ![n] = Append(Logs[n], ws)]

\* The mapped log holds the writes of the log.
LEMMA LogsHold ==
    ASSUME NEW n \in Names
    PROVE  UNION {Logs[n][i] : i \in DOMAIN Logs[n]} = Durable(n)
<1>1. Logs[n] = [i \in DOMAIN wal[n] |-> wal[n][i].writes]
  BY DEF Logs
<1>2. DOMAIN Logs[n] = DOMAIN wal[n] /\ \A i \in DOMAIN wal[n] : Logs[n][i] = wal[n][i].writes
  BY <1>1
<1>3. {Logs[n][i] : i \in DOMAIN Logs[n]} = {wal[n][i].writes : i \in DOMAIN wal[n]}
  BY <1>2
<1>4. QED BY <1>3 DEF Durable

\* What a running Db moves to its log are writes that no log has.
LEMMA MovedCommits ==
    ASSUME LogInv, EngineTypeOK, NEW d \in Requests, Moved(d)
    PROVE  Commits
<1> DEFINE n == name[d]
           s == wal[n]
           L == Len(s)
           t == [i \in DOMAIN s |-> s[i].writes]
<1>1. PICK ws \in SUBSET buffer[d] : Appended(n, d, ws)
  BY DEF Moved
<1>2. n \in Names /\ status[d] \in Live /\ s \in Seq(Entry)
  BY DEF Moved, EngineTypeOK
<1>3. ws \in SUBSET Unlogged(n)
  <2> SUFFICES ASSUME NEW w \in ws PROVE w \in Unlogged(n)
    OBVIOUS
  <2>1. BufferedInv(w, d)
    BY DEF LogInv
  <2>2. Sent(w) /\ asked[w[1]] = n /\ \A m \in Names : w \notin Durable(m)
    BY <1>2, <2>1 DEF BufferedInv
  <2>3. PICK r \in Requests, c \in Clients : w = <<r, c>>
    BY <2>2 DEF Sent, Writes
  <2>4. kind[r] = "put" => c = OneClient
    BY <2>2, <2>3 DEF Sent, LogInv, WantInv
  <2>5. QED BY <2>2, <2>3, <2>4 DEF Sent, Unlogged
<1>4. t \in Seq(SUBSET Writes) /\ Len(t) = L /\ DOMAIN t = 1..L /\ L \in Nat
  <2>1. L \in Nat /\ DOMAIN s = 1..L /\ \A i \in 1..L : s[i] \in Entry
    BY <1>2, LenProperties, ElementOfSeq
  <2>2. \A i \in 1..L : s[i].writes \in SUBSET Writes
    BY <2>1 DEF Entry
  <2>3. t \in [1..L -> SUBSET Writes]
    BY <2>1, <2>2
  <2>4. t \in Seq(SUBSET Writes)
    BY <2>1, <2>3
  <2>5. Len(t) = L
    BY <2>1, <2>3, <2>4, LenProperties
  <2>6. QED BY <2>1, <2>4, <2>5
<1>5. [i \in DOMAIN wal'[n] |-> wal'[n][i].writes] = Append(t, ws)
  <2>1. /\ DOMAIN wal'[n] = 1..(L + 1)
        /\ wal'[n][L + 1] = [by |-> d, writes |-> ws]
        /\ \A i \in 1..L : wal'[n][i] = s[i]
    BY <1>1, <1>2, <1>4 DEF Appended
  <2>2. \A i \in 1..(L + 1) : wal'[n][i].writes = IF i = L + 1 THEN ws ELSE t[i]
    BY <1>4, <2>1
  <2>3. Append(t, ws) = [i \in 1..(L + 1) |-> IF i = L + 1 THEN ws ELSE t[i]]
    <3>1. ws \in SUBSET Writes
      BY DEF EngineTypeOK
    <3>2. ASSUME NEW T, NEW q \in Seq(T), NEW e \in T
          PROVE  Append(q, e) = [i \in 1..(Len(q) + 1) |-> IF i = Len(q) + 1 THEN e ELSE q[i]]
      <4>1. /\ Append(q, e) \in Seq(T) /\ Len(Append(q, e)) = Len(q) + 1
            /\ Append(q, e)[Len(q) + 1] = e
            /\ \A i \in 1..Len(q) : Append(q, e)[i] = q[i]
        BY AppendProperties
      <4>2. Append(q, e) = [i \in 1..(Len(q) + 1) |-> Append(q, e)[i]] /\ Len(q) \in Nat
        BY <4>1, LenProperties
      <4>3. \A i \in 1..(Len(q) + 1) :
              Append(q, e)[i] = IF i = Len(q) + 1 THEN e ELSE q[i]
        BY <4>1, <4>2
      <4>4. QED BY <4>2, <4>3
    <3>3. Append(t, ws) = [i \in 1..(Len(t) + 1) |-> IF i = Len(t) + 1 THEN ws ELSE t[i]]
      <4> HIDE DEF t
      <4>1. QED BY <1>4, <3>1, <3>2
    <3>4. QED BY <1>4, <3>3
  <2>4. QED BY <2>1, <2>2, <2>3
<1>6. \A m \in Names : m # n => wal'[m] = wal[m]
  BY <1>1 DEF Appended
<1>7. Logs[n] = t
  BY <1>2 DEF Logs
<1>8. Logs' = [Logs EXCEPT ![n] = Append(Logs[n], ws)]
  <2>1. ASSUME NEW m \in Names
        PROVE  [i \in DOMAIN wal'[m] |-> wal'[m][i].writes]
                 = IF m = n THEN Append(Logs[n], ws) ELSE Logs[m]
    BY <1>5, <1>6, <1>7 DEF Logs
  <2>2. Logs' = [m \in Names |-> [i \in DOMAIN wal'[m] |-> wal'[m][i].writes]]
    BY DEF Logs
  <2>3. [Logs EXCEPT ![n] = Append(Logs[n], ws)]
          = [m \in Names |-> IF m = n THEN Append(Logs[n], ws) ELSE Logs[m]]
    BY <1>2 DEF Logs
  <2>4. QED BY <2>1, <2>2, <2>3
<1>9. QED BY <1>2, <1>3, <1>8 DEF Commits

\* The step leaves each log alone or commits pending writes to one.
LEMMA LogSteps ==
    ASSUME LogInv, EngineRuns
    PROVE  Logs' = Logs \/ Commits
<1>1. CASE UNCHANGED wal
  BY <1>1 DEF Logs
<1>2. QED BY <1>1, LogMoves, MovedCommits DEF EngineRuns

\* The answer of r, and of no other request, may change.
Answering(r) ==
    /\ Logs' = Logs /\ UNCHANGED <<kind, asked>>
    /\ asked[r] # None /\ Answers[r] = None
    /\ \/ Answers' = Answers
       \/ \E a \in {"ok", "error"} :
            /\ Answers' = [Answers EXCEPT ![r] = a]
            /\ a = "ok" /\ kind[r] = "put" => <<r, OneClient>> \in Durable(asked[r])

\* A request under way that a step leaves so, or answers.
LEMMA AnswersMove ==
    ASSUME Shared, AckedDurable', NEW r \in Requests,
           UNCHANGED <<wal, kind, asked>>,
           pc[r] \in Waiting \cup {"removing"},
           pc'[r] \in Waiting \cup {"removing", "ok", "error"},
           \A q \in Requests \ {r} : pc'[q] = pc[q]
    PROVE  Answering(r)
<1>1. asked[r] \in Names /\ asked[r] # None
  BY NoneAssumption DEF Shared, ObjectInv, CallInv, Waiting
<1>2. Answers[r] = None /\ Logs' = Logs
  BY DEF Answers, Logs, Waiting
<1>3. CASE pc'[r] \in {"ok", "error"}
  <2>1. Answers' = [Answers EXCEPT ![r] = pc'[r]]
    BY <1>3 DEF Answers
  <2>2. ASSUME pc'[r] = "ok", kind[r] = "put"
        PROVE  <<r, OneClient>> \in Durable(asked[r])
    <3>1. Ok(r, "put")'
      BY <2>2 DEF Ok
    <3>2. <<r, OneClient>> \in Durable(asked[r])'
      BY <1>1, <3>1 DEF AckedDurable, AckedPuts, Ok
    <3>3. QED BY <3>2 DEF Durable
  <2>3. QED BY <1>1, <1>2, <1>3, <2>1, <2>2 DEF Answering
<1>4. CASE pc'[r] \in Waiting \cup {"removing"}
  <2>1. Answers' = Answers
    BY <1>4 DEF Answers, Waiting
  <2>2. QED BY <1>1, <1>2, <2>1 DEF Answering
<1>5. QED BY <1>3, <1>4

\* The handlers answer one request at a time and leave the logs alone.
LEMMA HandleAnswers ==
    ASSUME Shared, Keeps, AckedDurable', NEW r \in Requests, Handle(r)
    PROVE  Answering(r)
<1>1. /\ kind' = kind /\ asked' = asked
      /\ \A q \in Requests \ {r} : pc'[q] = pc[q]
  BY HandleKeeps DEF Kept, OnlyMoves
<1>2. wal' = wal
  BY DEF Handle, DatabaseWrongName, DatabaseOpen, DatabaseOpening, Reopen,
         ReopenClosed, ReopenCloseErr, Installed, OpenErr, Stats, Put, DurableOk,
         FlushCall, Get, BenchPut, BenchOk, BenchErr, CallErr, BuildStart,
         CloseStart, Accept, engine
<1>3. /\ pc[r] \in Waiting
      /\ \/ pc' = pc \/ Go(r, "call") \/ Go(r, "opening") \/ Go(r, "closing")
         \/ Go(r, "sent") \/ Go(r, "ok") \/ Go(r, "error")
  BY DEF Handle, DatabaseWrongName, DatabaseOpen, DatabaseOpening, Reopen,
         ReopenClosed, ReopenCloseErr, Installed, OpenErr, Stats, Put, DurableOk,
         FlushCall, Get, BenchPut, BenchOk, BenchErr, CallErr, Waiting
<1>4. pc'[r] \in Waiting \cup {"ok", "error"}
  BY <1>3 DEF Go, Waiting, Shared
<1>5. QED BY <1>1, <1>2, <1>3, <1>4, AnswersMove

\* Every step of the object is a step of the log or leaves it alone.
LEMMA LogStep ==
    ASSUME IInv, LogInv, AckedDurable', [Next]_vars
    PROVE  [Promise!Next]_(Promise!logVars)
<1> USE DEF Promise!Next, Promise!logVars
<1>0. /\ pc \in [Requests -> {"new"} \cup Waiting \cup Answered]
      /\ \A r \in Requests : pc[r] # "new" => asked[r] \in Names
  BY DEF IInv, TypeOK, ObjectInv, CallInv
<1>1. ASSUME NEW r \in Requests, NEW k \in Kinds, NEW n \in Names, Start(r, k, n)
      PROVE  Promise!Next
  <2>1. asked[r] = None /\ Logs' = Logs
    BY <1>1 DEF Start, LogInv, WantInv, Logs, engine
  <2>2. Answers' = Answers
    BY <1>0, <1>1 DEF Start, Go, Answers
  <2>3. Promise!Call(r, k, n)
    BY <1>1, <2>1, <2>2 DEF Start, Promise!Call
  <2>4. QED BY <2>3
<1>2. ASSUME NEW r \in Requests, Handle(r)
      PROVE  Promise!Next \/ UNCHANGED Promise!logVars
  <2>1. Answering(r)
    BY <1>2, HandleAnswers, EngineKept, ObjectShares
  <2>2. CASE Answers' = Answers
    BY <2>1, <2>2 DEF Answering
  <2>3. ASSUME NEW a \in {"ok", "error"}, Answers' = [Answers EXCEPT ![r] = a],
               a = "ok" /\ kind[r] = "put" => <<r, OneClient>> \in Durable(asked[r])
        PROVE  Promise!Next
    <3>1. r \in Promise!Open
      BY <2>1 DEF Answering, Promise!Open
    <3>2. pc[r] # "new"
      BY <2>1 DEF Answering, LogInv, WantInv
    <3>3. a = "ok" /\ kind[r] = "put" => <<r, OneClient>> \in Promise!Contents(asked[r])
      BY <1>0, <2>3, <3>2, LogsHold DEF Promise!Contents
    <3>4. Promise!Answer(r, a)
      BY <2>1, <2>3, <3>1, <3>3 DEF Answering, Promise!Answer
    <3>5. QED BY <3>1, <3>4
  <2>4. QED BY <2>1, <2>2, <2>3 DEF Answering
<1>3. ASSUME NEW d \in Requests, Engine(d)
      PROVE  Promise!Next \/ UNCHANGED Promise!logVars
  <2>1. UNCHANGED <<asked, kind>> /\ Answers' = Answers
    BY <1>3 DEF Engine, calls, Answers
  <2>2. CASE Logs' = Logs
    BY <2>1, <2>2
  <2>3. ASSUME NEW n \in Names, NEW ws \in SUBSET Unlogged(n),
               Logs' = [Logs EXCEPT ![n] = Append(Logs[n], ws)]
        PROVE  Promise!Next
    <3>1. Unlogged(n) = Promise!Pending(n)
      BY LogsHold DEF Unlogged, Promise!Pending, Promise!Made, Promise!Contents,
                      Writes, Promise!Writes
    <3>2. Promise!Commit(n, ws)
      BY <2>1, <2>3, <3>1 DEF Promise!Commit
    <3>3. QED BY <2>3, <3>1, <3>2
  <2>4. QED BY <2>2, <2>3, LogSteps, ObjectRuns DEF Commits
<1>4. CASE Evict
  <2>1. \E lost \in SUBSET Promise!Open : Promise!Lose(lost)
    <3> DEFINE lost == {r \in Requests : pc[r] \in Waiting}
    <3>1. lost \subseteq Promise!Open
      BY <1>0, NoneAssumption DEF Promise!Open, Answers, Waiting
    <3>2. Answers' = [r \in Requests |-> IF r \in lost THEN "lost" ELSE Answers[r]]
      BY <1>0, <1>4 DEF Evict, Answers, Waiting
    <3>3. Logs' = Logs /\ UNCHANGED <<asked, kind>>
      BY <1>4 DEF Evict, engine, Logs
    <3>4. Promise!Lose(lost)
      BY <3>1, <3>2, <3>3 DEF Promise!Lose
    <3>5. QED BY <3>1, <3>4
  <2>2. QED BY <2>1
<1>5. CASE UNCHANGED vars
  <2>1. Logs' = Logs /\ Answers' = Answers
    BY <1>5 DEF vars, engine, calls, Logs, Answers
  <2>2. QED BY <1>5, <2>1 DEF vars, calls
<1>6. QED BY <1>1, <1>2, <1>3, <1>4, <1>5 DEF Next, Quiescent

\* The object implements the log of writes that its callers see: a write enters
\* the log it was addressed to at most once and whole with those it was flushed
\* with, though Dbs are reopened, fail with their last object stored, and outlive
\* their object; and a put answered with ok has entered.
THEOREM ObjectKeepsLog == Spec => LogKept
<1>1. Init => Promise!Init
  <2> SUFFICES ASSUME Init PROVE Promise!Init
    OBVIOUS
  <2>1. Logs = [n \in Names |-> <<>>]
    <3>1. \A n \in Names : [i \in DOMAIN wal[n] |-> wal[n][i].writes] = <<>>
      BY DEF Init, EngineInit
    <3>2. QED BY <3>1 DEF Logs
  <2>2. Answers = [r \in Requests |-> None]
    BY DEF Init, Answers
  <2>3. QED BY <2>1, <2>2 DEF Init, Promise!Init
<1>2. IInv /\ IInv' /\ LogInv /\ [Next]_vars => [Promise!Next]_(Promise!logVars)
  BY LogStep DEF IInv, ObjectInv
<1>3. QED
  BY <1>1, <1>2, InitInv, NextInv, LogStarts, LogStays, PTL DEF Spec, LogKept, Promise!Spec

----------------------------------------------------------------------------
(***************************************************************************)
(* Real time.  A put answered before another request arrives is in the log *)
(* by then and a log takes no write twice, so what is written later stands *)
(* behind it.  The argument is one about the log alone.                    *)
(***************************************************************************)
PastInv ==
    /\ \A q \in Requests : \A p \in before[q] : p \in Requests /\ pc[p] = "ok"
    /\ \A n \in Names : \A i, j \in DOMAIN Logs[n] :
         \A v \in Logs[n][i], w \in Logs[n][j] :
             Ok(v[1], "put") /\ v[1] \in before[w[1]] => i < j

\* What a request remembers are answers, and it remembers none that come later.
Remembers(q) ==
    /\ pc[q] # "new" => before'[q] = before[q]
    /\ \A p \in before'[q] : p \in before[q] \/ (p \in Requests /\ pc[p] = "ok")
    /\ pc[q] = "ok" => pc'[q] = "ok"

\* The handlers forget nothing.
LEMMA HandleRemembers ==
    ASSUME Shared, Keeps, NEW r \in Requests, Handle(r), NEW q \in Requests
    PROVE  Remembers(q)
<1>1. pc[r] \in Waiting
  BY DEF Handle, DatabaseWrongName, DatabaseOpen, DatabaseOpening, Reopen,
         ReopenClosed, ReopenCloseErr, Installed, OpenErr, Stats, Put, DurableOk,
         FlushCall, Get, BenchPut, BenchOk, BenchErr, CallErr, Waiting
<1>2. before' = before /\ (q # r => pc'[q] = pc[q])
  BY HandleKeeps DEF Kept, OnlyMoves
<1>3. QED BY <1>1, <1>2 DEF Remembers, Waiting

\* An object of the new log is one of the old log, or behind all of them.
LEMMA EntryComes ==
    ASSUME EngineTypeOK, NEW n \in Names, NEW ws,
           Logs' = [Logs EXCEPT ![n] = Append(Logs[n], ws)],
           NEW m \in Names, NEW i \in DOMAIN Logs'[m]
    PROVE  \/ i \in DOMAIN Logs[m] /\ Logs'[m][i] = Logs[m][i]
           \/ m = n /\ Logs'[m][i] = ws /\ \A j \in DOMAIN Logs[m] : j < i
<1>1. wal[n] \in Seq(Entry) /\ DOMAIN wal[n] = 1..Len(wal[n])
  BY DEF EngineTypeOK
<1>2. Logs[n] = [k \in 1..Len(wal[n]) |-> wal[n][k].writes] /\ Len(wal[n]) \in Nat
  BY <1>1 DEF Logs
<1>3. Len(Logs[n]) = Len(wal[n]) /\ DOMAIN Logs[n] = 1..Len(wal[n])
  BY <1>2
<1>4. CASE m # n
  BY <1>4 DEF Logs
<1>5. CASE m = n
  <2> DEFINE L == Len(wal[n])
             t == Append(Logs[n], ws)
  <2>1. Logs'[m] = t
    BY <1>5 DEF Logs
  <2>2. t = [k \in 1..(L + 1) |-> IF k = L + 1 THEN ws ELSE Logs[n][k]]
    BY <1>2, <1>3
  <2>3. i \in 1..(L + 1)
    BY <2>1, <2>2
  <2>4. CASE i = L + 1
    BY <1>2, <1>3, <1>5, <2>1, <2>2, <2>4
  <2>5. CASE i # L + 1
    <3>1. i \in 1..L
      BY <1>2, <2>3, <2>5
    <3>2. QED BY <1>3, <1>5, <2>1, <2>2, <2>3, <2>5, <3>1
  <2>6. QED BY <2>4, <2>5
<1>6. QED BY <1>4, <1>5

\* What is in a log was sent by a request that has begun.
LEMMA LoggedHasBegun ==
    ASSUME LogInv, NEW n \in Names, NEW i \in DOMAIN Logs[n], NEW w \in Logs[n][i]
    PROVE  w[1] \in Requests /\ pc[w[1]] # "new"
<1>1. w \in Durable(n)
  BY LogsHold
<1>2. QED BY <1>1 DEF LogInv, Sent, Writes, Early

\* The log keeps real time, whichever service writes it.
LEMMA PastInductive ==
    ASSUME LogInv, EngineRuns, AckedDurable, PastInv,
           \A q \in Requests : CallStep(q) /\ Remembers(q)
    PROVE  PastInv'
<1>1. \A q \in Requests : \A p \in before'[q] : p \in Requests /\ pc'[p] = "ok"
  BY DEF PastInv, Remembers
<1>2. ASSUME NEW v, NEW w, w[1] \in Requests, pc[w[1]] # "new",
             Ok(v[1], "put")', v[1] \in before'[w[1]]
      PROVE  v[1] \in Requests /\ Ok(v[1], "put") /\ v[1] \in before[w[1]]
  <2>1. v[1] \in before[w[1]] /\ v[1] \in Requests /\ pc[v[1]] = "ok"
    BY <1>2 DEF PastInv, Remembers
  <2>2. kind[v[1]] = "put"
    BY <1>2, <2>1 DEF CallStep, Ok
  <2>3. QED BY <2>1, <2>2 DEF Ok
<1>3. ASSUME NEW n \in Names, NEW i \in DOMAIN Logs'[n], NEW j \in DOMAIN Logs'[n],
             NEW v \in Logs'[n][i], NEW w \in Logs'[n][j],
             Ok(v[1], "put")', v[1] \in before'[w[1]]
      PROVE  i < j
  <2>1. CASE Logs' = Logs
    <3>1. w[1] \in Requests /\ pc[w[1]] # "new"
      BY <1>3, <2>1, LoggedHasBegun
    <3>2. Ok(v[1], "put") /\ v[1] \in before[w[1]]
      BY <1>2, <1>3, <3>1
    <3>3. QED BY <1>3, <2>1, <3>2 DEF PastInv
  <2>2. ASSUME NEW m \in Names, NEW ws \in SUBSET Unlogged(m),
               Logs' = [Logs EXCEPT ![m] = Append(Logs[m], ws)]
        PROVE  i < j
    <3>0. EngineTypeOK
      BY DEF EngineRuns
    <3>1. \/ i \in DOMAIN Logs[n] /\ Logs'[n][i] = Logs[n][i]
          \/ n = m /\ Logs'[n][i] = ws
      BY <1>3, <2>2, <3>0, EntryComes
    <3>2. \/ j \in DOMAIN Logs[n] /\ Logs'[n][j] = Logs[n][j]
          \/ n = m /\ Logs'[n][j] = ws /\ \A k \in DOMAIN Logs[n] : k < j
      BY <1>3, <2>2, <3>0, EntryComes
    <3>3. ASSUME w \in ws PROVE w[1] \in Requests /\ pc[w[1]] # "new"
      BY <2>2, <3>3, NoneAssumption DEF Unlogged, Writes, LogInv, WantInv
    <3>4. w[1] \in Requests /\ pc[w[1]] # "new"
      BY <1>3, <3>2, <3>3, LoggedHasBegun
    <3>5. v[1] \in Requests /\ Ok(v[1], "put") /\ v[1] \in before[w[1]]
      BY <1>2, <1>3, <3>4
    <3>6. v \notin ws
      <4>1. SUFFICES ASSUME v \in ws PROVE FALSE
        OBVIOUS
      <4>2. /\ v \in Writes /\ asked[v[1]] = m /\ v \notin Durable(m)
            /\ kind[v[1]] = "bench" \/ v[2] = OneClient
        BY <2>2, <4>1 DEF Unlogged
      <4>3. v = <<v[1], OneClient>>
        BY <3>5, <4>2 DEF Ok, Writes
      <4>4. v \in AckedPuts(m)
        BY <3>5, <4>2, <4>3 DEF AckedPuts
      <4>5. QED BY <4>2, <4>4 DEF AckedDurable
    <3>7. i \in DOMAIN Logs[n] /\ v \in Logs[n][i]
      BY <1>3, <3>1, <3>6
    <3>8. QED BY <1>3, <3>2, <3>5, <3>7 DEF PastInv
  <2>3. QED BY <2>1, <2>2, LogSteps DEF Commits
<1>4. \A n \in Names : \A i, j \in DOMAIN Logs'[n] : \A v \in Logs'[n][i], w \in Logs'[n][j] :
        Ok(v[1], "put")' /\ v[1] \in before'[w[1]] => i < j
  BY <1>3
<1>5. QED BY <1>1, <1>4 DEF PastInv

\* It is the order the property asks for.
LEMMA PastIsOrder == PastInv => RealTimeOrder
<1> SUFFICES ASSUME PastInv, NEW n \in Names, NEW i \in DOMAIN wal[n], NEW j \in DOMAIN wal[n],
                    NEW v \in wal[n][i].writes, NEW w \in wal[n][j].writes,
                    Ok(v[1], "put"), v[1] \in before[w[1]]
             PROVE  i < j
  BY DEF RealTimeOrder
<1>1. Logs[n] = [k \in DOMAIN wal[n] |-> wal[n][k].writes]
  BY DEF Logs
<1>2. i \in DOMAIN Logs[n] /\ j \in DOMAIN Logs[n] /\ v \in Logs[n][i] /\ w \in Logs[n][j]
  BY <1>1
<1>3. QED BY <1>2 DEF PastInv

\* What the object's requests remember.
LEMMA ObjectRemembers ==
    ASSUME IInv, [Next]_vars, NEW q \in Requests
    PROVE  Remembers(q)
<1>0. /\ pc \in [Requests -> {"new"} \cup Waiting \cup Answered]
      /\ before \in [Requests -> SUBSET Requests]
  BY DEF IInv, TypeOK
<1>1. ASSUME NEW r \in Requests, NEW k \in Kinds, NEW n \in Names, Start(r, k, n)
      PROVE  Remembers(q)
  BY <1>0, <1>1 DEF Start, Go, Remembers
<1>2. ASSUME NEW r \in Requests, Handle(r)
      PROVE  Remembers(q)
  BY <1>2, HandleRemembers, EngineKept, ObjectShares
<1>3. CASE UNCHANGED <<object, calls>>
  BY <1>3 DEF calls, Remembers
<1>4. CASE Evict
  BY <1>0, <1>4 DEF Evict, Remembers, Waiting
<1>5. QED BY <1>1, <1>2, <1>3, <1>4 DEF Next, Engine, Quiescent, vars

\* Every step keeps the order.
LEMMA PastStays == IInv /\ LogInv /\ PastInv /\ [Next]_vars => PastInv'
BY CallSteps, ObjectRemembers, ObjectRuns, PastInductive DEF IInv, ObjectInv

\* A put that was answered before another arrived comes before it in the log,
\* so every reader and every recovery meets the two in the order of real time.
THEOREM LogFollowsRealTime == Spec => []RealTimeOrder
<1>1. Init => PastInv
  BY DEF Init, EngineInit, PastInv, Logs
<1>2. QED
  BY <1>1, InitInv, NextInv, LogStarts, LogStays, PastStays, PastIsOrder, PTL DEF Spec

----------------------------------------------------------------------------
(***************************************************************************)
(* Reads.  Among the Dbs whose object lives, an open one has seen at least *)
(* as much of the log as any other of its name, and everything answered.   *)
(* No request of a living object holds the Db of a lost one.               *)
(***************************************************************************)
Current(r) ==
    /\ pc[r] \in {"call", "sent"} => held[r] \notin orphans
    /\ pc[r] = "opening" => r \notin orphans

Newest(d) ==
    /\ \A e \in Requests \ orphans : name[e] = name[d] => next[e] <= next[d]
    /\ AckedPuts(name[d]) \subseteq Known(d)

ReadInv ==
    /\ \A d \in orphans : status[d] # "unused"
    /\ active \notin orphans
    /\ \A r \in Requests : Current(r)
    /\ \A d \in Requests \ orphans : status[d] = "open" => Newest(d)

\* A Db becomes open when its build succeeds, and in no other way.
LEMMA OpenComes ==
    ASSUME EngineRuns, NEW d \in Requests, status'[d] = "open"
    PROVE  status[d] = "open" \/ BuildOk(d)
<1>0. status \in [Requests -> Status]
  BY DEF EngineRuns, EngineTypeOK
<1>1. CASE UNCHANGED engine
  BY <1>1 DEF engine
<1>2. ASSUME NEW e \in Requests, EngineAny(e)
      PROVE  status[d] = "open" \/ BuildOk(d)
  <2>1. CASE BuildOk(e)
    <3>1. e # d => status'[d] = status[d]
      BY <1>0, <2>1 DEF BuildOk
    <3>2. QED BY <2>1, <3>1
  <2>2. CASE ~BuildOk(e)
    BY <1>0, <1>2, <2>2
       DEF EngineAny, BuildStart, Accept, CloseStart, EngineStep, Progress, BuildErr,
           Flush, Fenced, Breaks, CloseOk
  <2>3. QED BY <2>1, <2>2
<1>3. QED BY <1>1, <1>2 DEF EngineRuns, EngineMoves

\* A Db that is built knows all its log held, and stands past every other.
LEMMA BuiltIsNewest ==
    ASSUME EngineTypeOK, EngineInv, NEW d \in Requests, BuildOk(d)
    PROVE  /\ Durable(name[d])' \subseteq Known(d)'
           /\ \A e \in Requests : name[e] = name[d] => next[e] < next'[d]
<1> DEFINE L == Len(wal[name[d]])
<1>0. /\ EngineTypeOK /\ EngineInv
      /\ name[d] \in Names /\ name' = name
      /\ next \in [Requests -> Nat]
  BY DEF EngineTypeOK, EngineInv, BuildOk
<1>1. L \in Nat /\ DOMAIN wal[name[d]] = 1..L
  BY <1>0, LenProperties DEF EngineTypeOK
<1>2. next'[d] = L + 2
  BY <1>0, <1>1 DEF BuildOk
<1>3. Appended(name[d], d, {})
  <2>1. wal' = Stored(name[d], L + 1, d, {})
    BY DEF BuildOk
  <2>2. QED BY <1>0, <2>1, StoringAppends, AppendShape
<1>4. Durable(name[d])' \subseteq Known(d)'
  <2>1. DOMAIN wal'[name[d]] = 1..L \cup {L + 1}
    BY <1>1, <1>3 DEF Appended
  <2>2. \A i \in DOMAIN wal'[name[d]] : i < next'[d]
    BY <1>1, <1>2, <2>1
  <2>3. QED BY <1>0, <2>2 DEF Durable, Known
<1>5. ASSUME NEW e \in Requests, name[e] = name[d]
      PROVE  next[e] < next'[d]
  <2>1. CASE next[e] > 0
    <3>1. next[e] - 1 \in 1..L
      BY <1>0, <1>1, <1>5, <2>1 DEF EngineInv, BuiltIsFenced, Built
    <3>2. QED BY <1>0, <1>1, <1>2, <3>1
  <2>2. CASE next[e] = 0
    BY <1>1, <1>2, <2>2
  <2>3. QED BY <1>0, <2>1, <2>2
<1>6. QED BY <1>4, <1>5

\* A request and the Db it holds are lost together.
LEMMA CurrentInductive ==
    ASSUME IInv, ReadInv, [Next]_vars, Keeps
    PROVE  /\ \A d \in orphans' : status'[d] # "unused"
           /\ active' \notin orphans'
           /\ \A r \in Requests : Current(r)'
<1> DEFINE Goal ==
             /\ \A d \in orphans' : status'[d] # "unused"
             /\ active' \notin orphans'
             /\ \A r \in Requests : Current(r)'
<1>0. /\ pc \in [Requests -> {"new"} \cup Waiting \cup Answered]
      /\ held \in [Requests -> Requests \cup {None}]
      /\ orphans \in SUBSET Requests /\ None \notin orphans
  BY NoneAssumption DEF IInv, TypeOK
\* A request that neither takes a Db nor begins to open one.
<1>1. ASSUME orphans' = orphans, active' \in {active, None},
             \A q \in Requests :
               \/ pc'[q] = pc[q] /\ held'[q] = held[q]
               \/ pc'[q] \notin {"call", "sent", "opening"}
               \/ pc[q] \in {"call", "sent"} /\ pc'[q] \in {"call", "sent"}
                  /\ held'[q] = held[q]
               \/ pc'[q] \in {"call", "sent"} /\ held'[q] \notin orphans
               \/ pc'[q] = "opening" /\ status[q] = "unused"
      PROVE  Goal
  <2>1. \A d \in orphans' : status'[d] # "unused"
    BY <1>0, <1>1 DEF ReadInv, Keeps
  <2>2. ASSUME NEW q \in Requests PROVE Current(q)'
    BY <1>1, <2>2 DEF ReadInv, Current
  <2>3. QED BY <1>0, <1>1, <2>1, <2>2 DEF ReadInv
<1>2. ASSUME NEW r \in Requests, NEW k \in Kinds, NEW n \in Names, Start(r, k, n)
      PROVE  Goal
  <2>1. \A q \in Requests : pc'[q] = pc[q] \/ pc'[q] = "lock"
    BY <1>0, <1>2 DEF Start, Go
  <2>2. QED BY <1>1, <1>2, <2>1 DEF Start, object
<1>3. ASSUME NEW r \in Requests, Handle(r)
      PROVE  Goal
  <2>0. orphans' = orphans /\ \A q \in Requests : q # r => pc'[q] = pc[q] /\ held'[q] = held[q]
    BY <1>3, HandleKeeps, ObjectShares DEF Kept, OnlyMoves
  <2>1. CASE DatabaseWrongName(r) \/ Stats(r) \/ DurableOk(r) \/ Get(r) \/ BenchOk(r)
             \/ BenchErr(r) \/ CallErr(r) \/ ReopenCloseErr(r) \/ OpenErr(r)
    <3>1. active' = active /\ (Go(r, "ok") \/ Go(r, "error"))
      BY <2>1 DEF DatabaseWrongName, Stats, DurableOk, Get, BenchOk, BenchErr, CallErr,
                  ReopenCloseErr, OpenErr, object
    <3>2. pc'[r] \notin {"call", "sent", "opening"}
      BY <1>0, <3>1 DEF Go
    <3>3. QED BY <1>1, <2>0, <3>1, <3>2
  <2>2. CASE DatabaseOpen(r)
    <3>1. active' = active /\ pc'[r] = "call" /\ held'[r] = active
      BY <1>0, <2>2 DEF DatabaseOpen, Go, object
    <3>2. QED BY <1>1, <2>0, <3>1 DEF ReadInv
  <2>3. CASE DatabaseOpening(r) \/ ReopenClosed(r) \/ (Reopen(r) /\ active = None)
    <3>1. active' \in {active, None} /\ Go(r, "opening") /\ BuildStart(r, asked[r])
      BY <2>3 DEF DatabaseOpening, ReopenClosed, Reopen, object
    <3>2. pc'[r] = "opening" /\ status[r] = "unused"
      BY <1>0, <3>1 DEF Go, BuildStart
    <3>3. QED BY <1>1, <2>0, <3>1, <3>2
  <2>4. CASE Reopen(r) /\ active # None
    <3>1. active' = None /\ pc'[r] = "closing"
      BY <1>0, <2>4 DEF Reopen, Go
    <3>2. QED BY <1>1, <2>0, <3>1
  <2>5. CASE Installed(r)
    <3>1. r \notin orphans
      BY <2>5 DEF Installed, ReadInv, Current
    <3>2. /\ active' = r /\ held'[r] = r
          /\ \A q \in Requests : q # r => pc'[q] = pc[q] /\ held'[q] = held[q]
          /\ pc'[r] # "opening"
      BY <1>0, <2>0, <2>5 DEF Installed, Go, UsesDatabase
    <3>3. ASSUME NEW q \in Requests PROVE Current(q)'
      BY <2>0, <3>1, <3>2 DEF ReadInv, Current
    <3>4. \A d \in orphans' : status'[d] # "unused"
      BY <1>0, <2>0 DEF ReadInv, Keeps
    <3>5. QED BY <2>0, <3>1, <3>2, <3>3, <3>4
  <2>6. CASE Put(r) \/ FlushCall(r) \/ \E c \in Clients : BenchPut(r, c)
    <3>1. active' = active /\ held' = held /\ pc[r] = "call"
          /\ (Go(r, "sent") \/ pc' = pc)
      BY <2>6 DEF Put, FlushCall, BenchPut, object
    <3>2. pc'[r] \in {"call", "sent"}
      BY <1>0, <3>1 DEF Go
    <3>3. QED BY <1>1, <2>0, <3>1, <3>2
  <2>7. QED BY <1>3, <2>1, <2>2, <2>3, <2>4, <2>5, <2>6 DEF Handle
<1>4. CASE UNCHANGED <<object, calls>>
  BY <1>1, <1>4 DEF object, calls
<1>5. CASE Evict
  <2>1. \A q \in Requests : pc'[q] \notin {"call", "sent", "opening"}
    BY <1>0, <1>5 DEF Evict, Waiting, Answered
  <2>2. active' = None /\ orphans' \in SUBSET Requests
        /\ \A d \in orphans' : status'[d] # "unused"
    BY <1>5 DEF Evict, engine
  <2>3. QED BY <2>1, <2>2, NoneAssumption DEF Current
<1>6. QED
  BY <1>2, <1>3, <1>4, <1>5 DEF Next, Engine, Quiescent, vars

\* What a Db knows only grows.
LEMMA KnownGrows ==
    ASSUME EngineRuns, Keeps, NEW d \in Requests, status[d] # "unused"
    PROVE  Known(d) \subseteq Known(d)'
<1>1. /\ name[d] \in Names /\ name'[d] = name[d] /\ next[d] <= next'[d]
      /\ next[d] \in Nat /\ next'[d] \in Nat
  BY NextMoves DEF EngineRuns, EngineInv, Keeps
<1>2. ASSUME NEW i \in DOMAIN wal[name[d]], i < next[d]
      PROVE  /\ i \in DOMAIN wal'[name[d]] /\ i < next'[d]
             /\ wal'[name[d]][i] = wal[name[d]][i]
  <2>1. i \in Nat
    <3>1. DOMAIN wal[name[d]] = 1..Len(wal[name[d]]) /\ Len(wal[name[d]]) \in Nat
      BY <1>1, LenProperties DEF EngineRuns, EngineTypeOK
    <3>2. QED BY <3>1
  <2>2. QED BY <1>1, <1>2, <2>1 DEF Keeps
<1>3. QED BY <1>1, <1>2 DEF Known

\* Of two Dbs of one name, the one that stands further knows more.
LEMMA KnownInOrder ==
    ASSUME EngineTypeOK, NEW d \in Requests, NEW e \in Requests,
           name[d] \in Names, name[e] = name[d], next[e] <= next[d]
    PROVE  Known(e) \subseteq Known(d)
<1>1. /\ DOMAIN wal[name[d]] = 1..Len(wal[name[d]]) /\ Len(wal[name[d]]) \in Nat
      /\ next[d] \in Nat /\ next[e] \in Nat
  BY LenProperties DEF EngineTypeOK
<1>2. \A i \in DOMAIN wal[name[d]] : i < next[e] => i < next[d]
  BY <1>1
<1>3. QED BY <1>2 DEF Known

\* An open Db whose object lives stays the newest of its name: it alone runs,
\* and a write is answered by a Db that is not past it.
LEMMA NewestInductive ==
    ASSUME IInv, MutexInv, ReadInv, [Next]_vars, Keeps, AckedDurable',
           NEW d \in Requests, d \notin orphans', status'[d] = "open"
    PROVE  Newest(d)'
<1>0. orphans' = orphans
  <2>1. Evict => FALSE
    BY DEF Evict, engine
  <2>2. QED BY <2>1, HandleKeeps, ObjectShares
            DEF Next, Start, Kept, Engine, Quiescent, vars, object
<1>1. /\ name[d] \in Names /\ name'[d] = name[d] /\ status[d] # "unused"
  <2>1. status[d] # "unused"
    BY OpenComes, ObjectRuns DEF BuildOk
  <2>2. QED BY <2>1 DEF IInv, EngineInv, Keeps
<1>2. ASSUME NEW e \in Requests \ orphans, name'[e] = name[d],
             name[e] = name[d] => next[e] <= next'[d]
      PROVE  next'[e] <= next'[d]
  <2>1. CASE e = d
    BY <2>1, NextMoves, ObjectRuns
  <2>2. CASE name'[e] # name[e]
    BY <2>2, NextMoves, ObjectRuns
  <2>3. CASE next'[e] = next[e] /\ name'[e] = name[e]
    BY <1>2, <2>3
  <2>4. CASE next'[e] # next[e] /\ e # d
    <3>1. status[e] \in Live
      BY <2>4, NextMoves, ObjectRuns
    <3>2. status[d] \in Live
      BY OpenComes, ObjectRuns DEF BuildOk, Live
    <3>3. \A a, b \in Requests : Owned(a) /\ Owned(b) => a = b
      BY NoneAssumption DEF MutexInv, Owned
    <3>4. QED BY <1>0, <2>4, <3>1, <3>2, <3>3 DEF MutexInv
  <2>5. QED BY <2>1, <2>2, <2>3, <2>4
<1>3. CASE BuildOk(d)
  <2>1. \A e \in Requests \ orphans : name'[e] = name[d] => next'[e] <= next'[d]
    <3>1. \A e \in Requests : name[e] = name[d] => next[e] < next'[d]
      BY <1>3, BuiltIsNewest, ObjectRuns DEF EngineRuns
    <3>2. \A e \in Requests : name[e] = name[d] => next[e] <= next'[d]
      BY <3>1, NextMoves, ObjectRuns
    <3>3. QED BY <1>2, <3>2
  <2>2. Durable(name[d])' \subseteq Known(d)'
    BY <1>3, BuiltIsNewest, ObjectRuns DEF EngineRuns
  <2>3. AckedPuts(name[d])' \subseteq Known(d)'
    <3>1. \A q \in Requests : Ok(q, "put")' /\ asked'[q] = name[d]
            => <<q, OneClient>> \in Durable(name[d])'
      BY <1>1 DEF AckedDurable, AckedPuts
    <3>2. QED BY <1>1, <2>2, <3>1 DEF AckedPuts
  <2>4. QED BY <1>0, <1>1, <2>1, <2>3 DEF Newest
<1>4. CASE status[d] = "open"
  <2>1. Newest(d)
    BY <1>0, <1>4 DEF ReadInv
  <2>2. \A e \in Requests \ orphans : name[e] = name[d] => next[e] <= next'[d]
    <3>1. \A e \in Requests : next[e] \in Nat /\ next'[e] \in Nat
      BY NextMoves, ObjectRuns
    <3>2. QED BY <2>1, <3>1, NextMoves, ObjectRuns DEF Newest
  <2>3. \A e \in Requests \ orphans : name'[e] = name[d] => next'[e] <= next'[d]
    BY <1>2, <2>2
  <2>4. Known(d) \subseteq Known(d)'
    BY <1>1, KnownGrows, ObjectRuns
  <2>5. ASSUME NEW q \in Requests, Ok(q, "put")', asked'[q] = name[d]
        PROVE  <<q, OneClient>> \in Known(d)
    <3>1. CASE Ok(q, "put") /\ asked[q] = name[d]
      BY <2>1, <3>1 DEF Newest, AckedPuts
    <3>2. CASE DurableOk(q)
      <4>1. /\ pc[q] = "sent" /\ kind[q] = "put" /\ asked[q] = name[d]
            /\ want[q] \subseteq Known(held[q])
        BY <2>5, <3>2 DEF DurableOk, AwaitDurable, Ok
      <4>2. /\ held[q] \in Requests \ orphans /\ name[held[q]] = name[d]
            /\ <<q, OneClient>> \in want[q]
        BY <4>1 DEF IInv, ObjectInv, CallInv, ReadInv, Current
      <4>3. next[held[q]] <= next[d]
        BY <2>1, <4>2 DEF Newest
      <4>4. Known(held[q]) \subseteq Known(d)
        BY <1>1, <4>2, <4>3, KnownInOrder DEF IInv, TypeOK
      <4>5. QED BY <4>1, <4>2, <4>4
    <3>3. DurableOk(q) => asked'[q] = asked[q]
      BY DEF DurableOk
    <3>4. QED BY <2>5, <3>1, <3>2, <3>3, AckedComes
  <2>6. AckedPuts(name[d])' \subseteq Known(d)'
    BY <1>1, <2>4, <2>5 DEF AckedPuts
  <2>7. QED BY <1>0, <1>1, <2>3, <2>6 DEF Newest
<1>5. QED BY <1>3, <1>4, OpenComes, ObjectRuns

\* Every step keeps the reads' invariant.
LEMMA ReadInductive == IInv /\ MutexInv /\ ReadInv /\ [Next]_vars => ReadInv'
<1> SUFFICES ASSUME IInv, MutexInv, ReadInv, [Next]_vars PROVE ReadInv'
  OBVIOUS
<1>1. Keeps /\ IInv'
  BY EngineKept, NextInv
<1>2. AckedDurable'
  BY <1>1 DEF IInv, ObjectInv
<1>3. \A d \in Requests \ orphans' : status'[d] = "open" => Newest(d)'
  BY <1>1, <1>2, NewestInductive
<1>4. QED BY <1>1, <1>3, CurrentInductive DEF ReadInv

\* A get or scan that is about to read an open Db finds every put and delete
\* answered so far, also those answered by a Db that a reopen has closed since.
THEOREM AnsweredWritesAreRead == Spec => []ReadsSeeAcks
<1>1. Init => MutexInv /\ ReadInv
  BY NoneAssumption DEF Init, EngineInit, MutexInv, Holding, Live, ReadInv, Current
<1>2. ASSUME IInv, ReadInv, NEW r \in Requests,
             pc[r] = "call", status[held[r]] = "open"
      PROVE  AckedPuts(asked[r]) \subseteq View(held[r])
  <2>1. held[r] \in Requests \ orphans /\ name[held[r]] = asked[r]
    BY <1>2 DEF IInv, ObjectInv, CallInv, ReadInv, Current
  <2>2. AckedPuts(name[held[r]]) \subseteq Known(held[r])
    BY <1>2, <2>1 DEF ReadInv, Newest
  <2>3. QED BY <2>1, <2>2 DEF View
<1>3. IInv /\ ReadInv => ReadsSeeAcks
  BY <1>2 DEF ReadsSeeAcks
<1>4. QED BY <1>1, <1>3, InitInv, NextInv, MutexInductive, ReadInductive, PTL DEF Spec

----------------------------------------------------------------------------
(***************************************************************************)
(* Scans.  What the loop of the scan route collects is a function of the   *)
(* limit and of how many keys there are, so a scan that does not say       *)
(* truncated has listed all of them, and a read sees every answered write. *)
(***************************************************************************)

\* The limit of any query is in range.
LEMMA LimitRange ==
    ASSUME NEW query \in Queries
    PROVE  Limit(query) \in 1..MaxLimit
BY LimitsAssumption DEF Limit, Queries

\* The loop ends with all there is, or with one item more than the limit.
LEMMA CollectedIs ==
    ASSUME NEW limit \in Nat, NEW found \in Nat
    PROVE  Collected(limit, found) = IF found <= limit THEN found ELSE limit + 1
<1> DEFINE w == IF found <= limit THEN found ELSE limit + 1
           Ends(n) == /\ ~ReadsOn(n, limit, found)
                      /\ \A m \in 0..(n - 1) : ReadsOn(m, limit, found)
<1>1. w \in 0..found /\ Ends(w)
  BY DEF ReadsOn
<1>2. \A n \in 0..found : Ends(n) => n = w
  <2> SUFFICES ASSUME NEW n \in 0..found, Ends(n) PROVE n = w
    OBVIOUS
  <2>1. ~(n <= limit /\ n < found)
    BY DEF ReadsOn
  <2>2. n # 0 => n - 1 <= limit /\ n - 1 < found
    BY DEF ReadsOn
  <2>3. QED BY <2>1, <2>2
<1> HIDE DEF w, Ends
<1>3. (CHOOSE n \in 0..found : Ends(n)) = w
  BY <1>1, <1>2
<1>4. QED BY <1>3 DEF Collected, Ends, w

\* How many keys the answer lists.
Listed(keys, query) == IF Len(keys) > Limit(query) THEN Limit(query) ELSE Len(keys)

\* The answer lists the first keys, as many as the limit allows.
LEMMA ScanIs ==
    ASSUME NEW S, NEW keys \in Seq(S), NEW query \in Queries,
           NEW scan, scan = ScanResponse(keys, query)
    PROVE  /\ scan.truncated <=> Len(keys) > Limit(query)
           /\ scan.items = SubSeq(keys, 1, Listed(keys, query))
           /\ Len(scan.items) = Listed(keys, query)
           /\ \A i \in 1..Listed(keys, query) : scan.items[i] = keys[i]
<1> DEFINE limit == Limit(query)
           c == Collected(limit, Len(keys))
           n == Listed(keys, query)
           items == SubSeq(keys, 1, c)
<1>1. limit \in Nat \ {0} /\ Len(keys) \in Nat
  BY LimitRange, LimitsAssumption
<1>2. c = IF Len(keys) <= limit THEN Len(keys) ELSE limit + 1
  BY <1>1, CollectedIs
<1>3. c \in 0..Len(keys) /\ n \in 0..c /\ n \in 0..Len(keys)
  BY <1>1, <1>2 DEF Listed
<1>4. \A i \in 1..Len(keys) : keys[i] \in S
  OBVIOUS
<1>5. Len(items) = c
  BY <1>3, <1>4, SubSeqProperties
<1>6. c > limit <=> Len(keys) > limit
  BY <1>1, <1>2
<1>7. SubSeq(items, 1, n) = SubSeq(keys, 1, n)
  BY <1>3, <1>4, SubSeqOfSubSeq
<1>8. n = IF Len(items) > limit THEN limit ELSE Len(items)
  BY <1>1, <1>2, <1>5 DEF Listed
<1>9. /\ Len(SubSeq(keys, 1, n)) = n
      /\ \A i \in 1..n : SubSeq(keys, 1, n)[i] = keys[i]
  BY <1>3, <1>4, SubSeqProperties
<1>10. scan.items = SubSeq(items, 1, n) /\ (scan.truncated <=> Len(items) > limit)
  BY <1>8 DEF ScanResponse
<1>11. QED BY <1>5, <1>6, <1>7, <1>9, <1>10

\* A listing of finitely many keys has them all.
LEMMA ListingIsAll ==
    ASSUME NEW found, IsFiniteSet(found), NEW keys \in Listings(found)
    PROVE  /\ keys \in Seq(found)
           /\ found = {keys[i] : i \in 1..Len(keys)}
<1> DEFINE k == Cardinality(found)
<1>1. k \in Nat /\ keys \in Injection(1..k, found)
  BY FS_CardinalityType DEF Listings
<1>2. Cardinality(1..k) = k
  BY <1>1, FS_Interval
<1>3. keys \in Surjection(1..k, found) /\ keys \in [1..k -> found]
  BY <1>1, <1>2, FS_Injection DEF Injection
<1>4. \A x \in found : \E i \in 1..k : keys[i] = x
  BY <1>3 DEF Surjection
<1>5. keys \in Seq(found) /\ Len(keys) = k
  BY <1>1, <1>3
<1>6. QED BY <1>3, <1>4, <1>5

\* What a scan finds is listed, or truncation admits that it is not.
LEMMA ScanListsAll ==
    ASSUME NEW found, IsFiniteSet(found),
           NEW keys \in Listings(found), NEW query \in Queries,
           NEW scan, scan = ScanResponse(keys, query)
    PROVE  /\ scan.items = SubSeq(keys, 1, Len(scan.items))
           /\ Len(scan.items) <= MaxLimit
           /\ scan.truncated => found \subseteq Range(keys)
           /\ ~scan.truncated => found \subseteq Range(scan.items)
           /\ scan.truncated => Len(scan.items) \in 1..(Len(keys) - 1)
<1>1. keys \in Seq(found) /\ found = {keys[i] : i \in 1..Len(keys)} /\ Len(keys) \in Nat
  BY ListingIsAll
<1>2. Limit(query) \in 1..MaxLimit /\ MaxLimit \in Nat
  BY LimitRange, LimitsAssumption
<1> DEFINE limit == Limit(query)
           n == Listed(keys, query)
<1>3. /\ scan.truncated <=> Len(keys) > limit
      /\ scan.items = SubSeq(keys, 1, n)
      /\ Len(scan.items) = n
      /\ \A i \in 1..n : scan.items[i] = keys[i]
  BY <1>1, ScanIs
<1>4. n <= MaxLimit
  BY <1>1, <1>2 DEF Listed
<1>5. CASE scan.truncated
  <2>1. n = limit /\ limit \in 1..(Len(keys) - 1)
    BY <1>1, <1>2, <1>3, <1>5 DEF Listed
  <2>2. found \subseteq Range(keys)
    BY <1>1 DEF Range
  <2>3. QED BY <1>3, <1>4, <1>5, <2>1, <2>2
<1>6. CASE ~scan.truncated
  <2>1. n = Len(keys)
    BY <1>1, <1>2, <1>3, <1>6 DEF Listed
  <2>2. DOMAIN scan.items = 1..n
    BY <1>1, <1>3, <2>1, SubSeqFull
  <2>3. found \subseteq Range(scan.items)
    BY <1>1, <1>3, <2>1, <2>2 DEF Range
  <2>4. QED BY <1>3, <1>4, <1>6, <2>3
<1>7. QED BY <1>5, <1>6

\* If reads see what was answered, a scan may be taken at its word.
LEMMA ScansFollowReads ==
    ASSUME ReadsSeeAcks
    PROVE  ScanSeesAcks
<1> SUFFICES ASSUME NEW r \in Requests,
                    pc[r] = "call", kind[r] = "get", status[held[r]] = "open",
                    NEW matching \in SUBSET Writes, NEW query \in Queries,
                    IsFiniteSet(View(held[r]) \cap matching),
                    NEW keys \in Listings(View(held[r]) \cap matching),
                    NEW scan, scan = ScanResponse(keys, query)
             PROVE  /\ scan.items = SubSeq(keys, 1, Len(scan.items))
                    /\ Len(scan.items) <= MaxLimit
                    /\ AckedPuts(asked[r]) \cap matching
                         \subseteq Range(IF scan.truncated THEN keys ELSE scan.items)
                    /\ scan.truncated => Len(scan.items) \in 1..(Len(keys) - 1)
  BY DEF ScanSeesAcks
<1>1. AckedPuts(asked[r]) \cap matching \subseteq View(held[r]) \cap matching
  BY DEF ReadsSeeAcks
<1> DEFINE found == View(held[r]) \cap matching
<1>2. IsFiniteSet(found) /\ keys \in Listings(found)
  OBVIOUS
<1> HIDE DEF found
<1>3. /\ scan.items = SubSeq(keys, 1, Len(scan.items))
      /\ Len(scan.items) <= MaxLimit
      /\ scan.truncated => found \subseteq Range(keys)
      /\ ~scan.truncated => found \subseteq Range(scan.items)
      /\ scan.truncated => Len(scan.items) \in 1..(Len(keys) - 1)
  BY <1>2, ScanListsAll
<1>4. QED BY <1>1, <1>3 DEF found

\* A scan lists every key under its prefix whose write was answered before it
\* was sent, or says truncated before the key (lib.rs:363-376 on the view that
\* database() gave it).
THEOREM ScansSeeAnsweredWrites == Spec => []ScanSeesAcks
<1>1. ReadsSeeAcks => ScanSeesAcks
  BY ScansFollowReads
<1>2. QED BY <1>1, AnsweredWritesAreRead, PTL

----------------------------------------------------------------------------
(***************************************************************************)
(* The drain.  What a batch wrote is in its Db's buffer or in the log, a   *)
(* closed Db has nothing buffered, and the mutex leaves a flush no other   *)
(* running Db to drain than the one that took the batch.                   *)
(***************************************************************************)
\* Where the writes of q are: the Db that took them buffers them or has put
\* them in the log, unless it failed.
Placed(q) ==
    /\ held[q] \in Requests /\ status[held[q]] # "unused"
    /\ asked[q] \in Names /\ name[held[q]] = asked[q]
    /\ status[held[q]] # "failed" => want[q] \subseteq Durable(asked[q]) \cup buffer[held[q]]

\* The flush f must see to the batch b.
Drains(f, b) ==
    /\ kind[f] = "flush" /\ b \in before[f]
    /\ Ok(b, "bench") /\ asked[b] = asked[f]
    /\ status[held[b]] # "failed" /\ held[b] \notin orphans

\* What a flush waits for, and what it has waited for.
DrainAt(f, b) ==
    /\ pc[f] = "sent" => want[b] \subseteq Durable(asked[b]) \cup want[f]
    /\ pc[f] = "ok" => want[b] \subseteq Durable(asked[b])

DrainInv ==
    /\ \A d \in Requests : status[d] = "closed" => buffer[d] = {}
    /\ \A q \in Requests : kind[q] = "bench" /\ want[q] # {} => Placed(q)
    /\ \A f, b \in Requests : Drains(f, b) => DrainAt(f, b)

\* A write leaves a buffer for the log of its Db.
LEMMA BufferLeaves ==
    ASSUME EngineRuns, NEW d \in Requests, NEW w \in buffer[d], w \notin buffer'[d]
    PROVE  w \in Durable(name[d])'
<1>0. /\ buffer \in [Requests -> SUBSET Writes] /\ next \in [Requests -> Nat]
      /\ EngineTypeOK /\ EngineInv
  BY DEF EngineRuns, EngineTypeOK
<1>1. UNCHANGED buffer => FALSE
  OBVIOUS
<1>2. ASSUME NEW e \in Requests, EngineAny(e)
      PROVE  w \in Durable(name[d])'
  <2>1. Flush(e)
    <3>1. \A x \in Writes : ~Accept(e, x)
      BY <1>0 DEF Accept
    <3>2. QED
      BY <1>1, <1>2, <3>1 DEF EngineAny, BuildStart, CloseStart, EngineStep, Progress,
                              BuildOk, BuildErr, Fenced, Breaks, CloseOk
  <2>2. e = d
    BY <1>0, <2>1 DEF Flush
  <2>3. Extends(d)
    <3>1. next'[d] # next[d] /\ status[d] # "building"
      BY <1>0, <2>1, <2>2 DEF Flush
    <3>2. Quiet \/ Fences(d) \/ Extends(d)
      BY <1>0, <1>2, <2>2, EngineShape
    <3>3. QED BY <3>1, <3>2 DEF Quiet, Fences
  <2>4. name[d] \in Names /\ name'[d] = name[d]
    BY <1>0, <2>1, <2>2 DEF Flush, EngineInv
  <2>5. Appended(name[d], d, buffer[d])
    BY <1>0, <2>3, <2>4, AppendShape DEF Extends
  <2>6. QED BY <2>4, <2>5 DEF Appended, Durable
<1>3. UNCHANGED engine => FALSE
  BY <1>1 DEF engine
<1>4. QED BY <1>2, <1>3 DEF EngineRuns, EngineMoves

\* A stream of a batch writes to the Db that has the batch's other writes.
LEMMA BenchPlaces ==
    ASSUME Shared, NEW q \in Requests, NEW c \in Clients, BenchPut(q, c),
           want[q] # {} => Placed(q)
    PROVE  Placed(q)'
<1>0. /\ want \in [Requests -> SUBSET Writes]
      /\ buffer \in [Requests -> SUBSET Writes]
  BY DEF Shared, EngineTypeOK
<1>1. /\ held[q] \in Requests /\ status[held[q]] # "unused"
      /\ asked[q] \in Names /\ name[held[q]] = asked[q]
  BY DEF BenchPut, Shared, ObjectInv, CallInv
<1>2. /\ held' = held /\ asked' = asked /\ status' = status /\ name' = name /\ wal' = wal
      /\ status[held[q]] = "open"
      /\ want'[q] = want[q] \cup {<<q, c>>}
      /\ buffer'[held[q]] = buffer[held[q]] \cup {<<q, c>>}
  BY <1>0, <1>1 DEF BenchPut, Accept
<1>3. want[q] \subseteq Durable(asked[q]) \cup buffer[held[q]]
  BY <1>2 DEF Placed
<1>4. Durable(asked[q])' = Durable(asked[q])
  BY <1>2 DEF Durable
<1>5. QED BY <1>1, <1>2, <1>3, <1>4 DEF Placed

\* What was written stays in the Db's buffer or goes to the log.
LEMMA PlacedStays ==
    ASSUME EngineRuns, Keeps, NEW q \in Requests, Placed(q),
           want'[q] = want[q], held'[q] = held[q], asked'[q] = asked[q]
    PROVE  Placed(q)'
<1>1. PICK h \in Requests : h = held[q]
  BY DEF Placed
<1>2. /\ asked[q] \in Names
      /\ name[h] = asked[q] /\ name'[h] = asked[q] /\ status'[h] # "unused"
  BY <1>1 DEF Placed, Keeps
<1>3. ASSUME status'[h] # "failed", NEW w \in want[q]
      PROVE  w \in Durable(asked[q])' \/ w \in buffer'[h]
  <2>1. w \in Durable(asked[q]) \cup buffer[h]
    BY <1>1, <1>3, StoppedStays DEF Placed
  <2>2. CASE w \in Durable(asked[q])
    <3>1. PICK i \in DOMAIN wal[asked[q]] : w \in wal[asked[q]][i].writes
      BY <2>2 DEF Durable
    <3>2. i \in DOMAIN wal'[asked[q]] /\ w \in wal'[asked[q]][i].writes
      BY <1>2, <3>1 DEF Keeps
    <3>3. QED BY <1>2, <3>2 DEF Durable
  <2>3. CASE w \in buffer[h] /\ w \notin buffer'[h]
    <3>1. w \in Durable(name[h])'
      BY <2>3, BufferLeaves
    <3>2. QED BY <1>2, <3>1 DEF Durable
  <2>4. QED BY <2>1, <2>2, <2>3
<1>4. status'[h] # "failed" => want'[q] \subseteq Durable(asked[q])' \cup buffer'[h]
  BY <1>3
<1>5. QED BY <1>1, <1>2, <1>4 DEF Placed

\* Every step keeps a batch's writes placed.
LEMMA PlacedInductive ==
    ASSUME IInv, LogInv, DrainInv, [Next]_vars, Keeps,
           NEW q \in Requests, kind'[q] = "bench", want'[q] # {}
    PROVE  Placed(q)'
<1>0. CallStep(q)
  BY CallSteps
<1>1. pc[q] # "new" /\ kind[q] = "bench"
  <2>1. pc[q] = "new" => want'[q] = want[q]
    BY <1>0 DEF CallStep, WantKept, Put, FlushCall, BenchPut
  <2>2. pc[q] # "new"
    BY <2>1 DEF LogInv, WantInv, Early
  <2>3. QED BY <1>0, <2>2 DEF CallStep
<1>2. ASSUME NEW c \in Clients, BenchPut(q, c)
      PROVE  Placed(q)'
  BY <1>1, <1>2, BenchPlaces, ObjectShares DEF DrainInv
<1>3. CASE want'[q] = want[q]
  <2>1. Placed(q) /\ pc[q] \notin Early
    BY <1>1, <1>3 DEF DrainInv, LogInv, WantInv
  <2>2. held'[q] = held[q] /\ asked'[q] = asked[q]
    BY <1>0, <1>1, <2>1 DEF CallStep, WantKept
  <2>3. QED BY <1>3, <2>1, <2>2, PlacedStays, ObjectRuns
<1>4. QED
  BY <1>0, <1>1, <1>2, <1>3 DEF CallStep, WantKept, Put, FlushCall

\* What a flush must see to was known when it was called.
LEMMA DrainsStays ==
    ASSUME IInv, LogInv, PastInv, ReadInv, DrainInv, [Next]_vars, Keeps,
           NEW f \in Requests, pc[f] # "new",
           NEW b \in Requests, Drains(f, b)', want'[b] # {}
    PROVE  /\ Drains(f, b) /\ Placed(b) /\ want'[b] = want[b]
           /\ asked'[b] = asked[b] /\ asked'[f] = asked[f]
<1>0. CallStep(f) /\ CallStep(b) /\ Remembers(f)
  BY CallSteps, ObjectRemembers
<1>1. kind[f] = "flush" /\ b \in before[f] /\ asked'[f] = asked[f]
  BY <1>0 DEF CallStep, Remembers, Drains
<1>2. pc[b] = "ok"
  BY <1>1 DEF PastInv
<1>3. kind[b] = "bench" /\ asked'[b] = asked[b] /\ held'[b] = held[b]
  BY <1>0, <1>2 DEF CallStep, WantKept, Drains, Ok, Early
<1>4. want'[b] = want[b]
  BY <1>0, <1>2 DEF CallStep, WantKept, Put, FlushCall, BenchPut
<1>5. Placed(b)
  BY <1>3, <1>4 DEF DrainInv
<1>6. status[held[b]] # "failed"
  BY <1>3, <1>5, StoppedStays, ObjectRuns DEF Drains, Placed
<1>7. orphans \subseteq orphans'
  <2>1. CASE Evict
    BY <2>1 DEF Evict, ReadInv, IInv, TypeOK
  <2>2. CASE ~Evict
    BY <2>2, HandleKeeps, ObjectShares DEF Next, Start, Kept, Engine, Quiescent, vars, object
  <2>3. QED BY <2>1, <2>2
<1>8. QED
  BY <1>1, <1>2, <1>3, <1>4, <1>5, <1>6, <1>7 DEF Drains, Ok

\* A flush is sent by FlushCall, and answered with ok by DurableOk.
FlushMove(f) ==
    /\ pc'[f] = "sent" => pc[f] = "sent" \/ FlushCall(f)
    /\ pc'[f] = "ok" => pc[f] = "ok" \/ DurableOk(f)

\* The handlers do so.
LEMMA HandleFlushes ==
    ASSUME Shared, Keeps, NEW r \in Requests, Handle(r),
           NEW f \in Requests, kind'[f] = "flush"
    PROVE  FlushMove(f)
<1>0. pc \in [Requests -> Places]
  BY DEF Shared
<1>1. Kept(r)
  BY HandleKeeps
<1>2. CASE f # r
  BY <1>1, <1>2 DEF Kept, OnlyMoves, FlushMove
<1>3. CASE f = r
  <2>1. kind[r] = "flush"
    BY <1>1, <1>3 DEF Kept
  <2>2. pc'[r] = "sent" => FlushCall(r) \/ pc[r] = "sent"
    BY <1>0, <2>1
       DEF Handle, DatabaseWrongName, DatabaseOpen, DatabaseOpening, Reopen,
           ReopenClosed, ReopenCloseErr, Installed, OpenErr, Stats, Put, DurableOk,
           Get, BenchPut, BenchOk, BenchErr, CallErr, Go, UsesDatabase
  <2>3. pc'[r] = "ok" => DurableOk(r)
    BY <1>0, <2>1
       DEF Handle, DatabaseWrongName, DatabaseOpen, DatabaseOpening, Reopen,
           ReopenClosed, ReopenCloseErr, Installed, OpenErr, Stats, Put,
           FlushCall, Get, BenchPut, BenchOk, BenchErr, CallErr, Go, UsesDatabase
  <2>4. QED BY <1>3, <2>2, <2>3 DEF FlushMove
<1>4. QED BY <1>2, <1>3

\* So does every step of the object.
LEMMA FlushMoves ==
    ASSUME IInv, [Next]_vars, Keeps, NEW f \in Requests, kind'[f] = "flush"
    PROVE  FlushMove(f)
<1>0. pc \in [Requests -> {"new"} \cup Waiting \cup Answered]
  BY DEF IInv, TypeOK
<1>1. ASSUME NEW r \in Requests, NEW k \in Kinds, NEW n \in Names, Start(r, k, n)
      PROVE  FlushMove(f)
  BY <1>0, <1>1 DEF Start, Go, FlushMove
<1>2. ASSUME NEW r \in Requests, Handle(r)
      PROVE  FlushMove(f)
  BY <1>2, HandleFlushes, ObjectShares
<1>3. CASE UNCHANGED <<object, calls>>
  BY <1>3 DEF calls, FlushMove
<1>4. CASE Evict
  BY <1>0, <1>4 DEF Evict, FlushMove
<1>5. QED BY <1>1, <1>2, <1>3, <1>4 DEF Next, Engine, Quiescent, vars

\* close() returns once nothing is buffered, and a closed Db accepts nothing.
LEMMA ClosedIsEmpty ==
    ASSUME EngineRuns, NEW d \in Requests, status'[d] = "closed",
           status[d] = "closed" => buffer[d] = {}
    PROVE  buffer'[d] = {}
<1>0. status \in [Requests -> Status] /\ buffer \in [Requests -> SUBSET Writes]
  BY DEF EngineRuns, EngineTypeOK
<1>1. CASE UNCHANGED engine
  BY <1>1 DEF engine
<1>2. ASSUME NEW e \in Requests, EngineAny(e)
      PROVE  buffer'[d] = {}
  <2>1. CASE e = d
    BY <1>0, <1>2, <2>1
       DEF EngineAny, BuildStart, Accept, CloseStart, EngineStep, Progress, BuildOk,
           BuildErr, Flush, Fenced, Breaks, CloseOk
  <2>2. CASE e # d
    <3>1. status'[d] = status[d]
      BY <1>2, <2>2, EngineShape DEF Moves, EngineRuns
    <3>2. buffer'[d] = buffer[d]
      BY <1>0, <1>2, <2>2
         DEF EngineAny, BuildStart, Accept, CloseStart, EngineStep, Progress, BuildOk,
             BuildErr, Flush, Fenced, Breaks, CloseOk
    <3>3. QED BY <3>1, <3>2
  <2>3. QED BY <2>1, <2>2
<1>3. QED BY <1>1, <1>2 DEF EngineRuns, EngineMoves

\* A flush takes over what the batches it must see to have left in the buffer.
LEMMA FlushTakesOver ==
    ASSUME IInv, MutexInv, ReadInv, DrainInv,
           NEW f \in Requests, FlushCall(f), NEW b \in Requests, Drains(f, b), Placed(b)
    PROVE  want[b] \subseteq Durable(asked[b]) \cup want'[f]
<1>1. /\ held[f] \in Requests \ orphans /\ status[held[f]] = "open"
      /\ want'[f] = buffer[held[f]]
  BY DEF FlushCall, ToDrain, IInv, ObjectInv, CallInv, ReadInv, Current, TypeOK
<1>2. /\ want[b] \subseteq Durable(asked[b]) \cup buffer[held[b]]
      /\ held[b] \in Requests \ orphans
      /\ status[held[b]] \in Live \cup {"closed"}
  BY DEF Drains, Placed, IInv, TypeOK, EngineTypeOK, Status, Live
<1>3. CASE status[held[b]] = "closed"
  BY <1>2, <1>3 DEF DrainInv
<1>4. CASE status[held[b]] \in Live
  <2>1. \A d, e \in Requests : Owned(d) /\ Owned(e) => d = e
    BY NoneAssumption DEF MutexInv, Owned
  <2>2. held[b] = held[f]
    BY <1>1, <1>2, <1>4, <2>1 DEF MutexInv, Live
  <2>3. QED BY <1>1, <1>2, <2>2
<1>5. QED BY <1>2, <1>3, <1>4

\* A flush that took over what a batch left waits for it, and is answered when
\* it is in the log.
LEMMA DrainGoesOn ==
    ASSUME Shared, Keeps, NEW f \in Requests, NEW b \in Requests,
           Drains(f, b), Placed(b), DrainAt(f, b), WantKept(f), FlushMove(f),
           want'[b] = want[b], asked'[b] = asked[b],
           FlushCall(f) => want[b] \subseteq Durable(asked[b]) \cup want'[f]
    PROVE  DrainAt(f, b)'
<1>1. PICK n \in Names : n = asked[b] /\ n = asked'[b]
  BY DEF Placed
<1>2. Durable(n) \subseteq Durable(n)'
  BY DurableGrows
<1>3. ASSUME pc'[f] = "sent" PROVE want[b] \subseteq Durable(n) \cup want'[f]
  <2>1. CASE FlushCall(f)
    BY <1>1, <2>1
  <2>2. CASE pc[f] = "sent"
    <3>1. want'[f] = want[f]
      BY <2>2 DEF WantKept, Put, FlushCall, BenchPut
    <3>2. QED BY <1>1, <2>2, <3>1 DEF DrainAt
  <2>3. QED BY <1>3, <2>1, <2>2 DEF FlushMove
<1>4. ASSUME pc'[f] = "ok" PROVE want[b] \subseteq Durable(n)
  <2>1. CASE pc[f] = "ok"
    BY <1>1, <2>1 DEF DrainAt
  <2>2. CASE DurableOk(f)
    <3>1. pc[f] = "sent" /\ want[f] \subseteq Known(held[f])
      BY <2>2 DEF DurableOk, AwaitDurable
    <3>2. held[f] \in Requests /\ name[held[f]] = n
      BY <1>1, <3>1 DEF Shared, ObjectInv, CallInv, Drains
    <3>3. want[f] \subseteq Durable(n)
      BY <3>1, <3>2, KnownIsDurable
    <3>4. QED BY <1>1, <3>1, <3>3 DEF DrainAt
  <2>3. QED BY <1>4, <2>1, <2>2 DEF FlushMove
<1>5. Durable(asked[b])' = Durable(n)'
  BY <1>1 DEF Durable
<1>6. QED BY <1>2, <1>3, <1>4, <1>5 DEF DrainAt

\* Every step keeps the drain's invariant.
LEMMA DrainInductive ==
    ASSUME IInv, LogInv, PastInv, MutexInv, ReadInv, DrainInv, [Next]_vars
    PROVE  DrainInv'
<1>1. Keeps
  BY EngineKept
<1>2. \A d \in Requests : status'[d] = "closed" => buffer'[d] = {}
  BY ClosedIsEmpty, ObjectRuns DEF DrainInv
<1>3. \A q \in Requests : kind'[q] = "bench" /\ want'[q] # {} => Placed(q)'
  BY <1>1, PlacedInductive
<1>4. ASSUME NEW f \in Requests, NEW b \in Requests, Drains(f, b)'
      PROVE  DrainAt(f, b)'
  <2>1. FlushMove(f)
    BY <1>1, <1>4, FlushMoves DEF Drains
  <2>2. CASE want'[b] = {} \/ pc'[f] \notin {"sent", "ok"}
    BY <2>2 DEF DrainAt
  <2>3. CASE want'[b] # {} /\ pc'[f] \in {"sent", "ok"}
    <3>1. pc[f] # "new"
      BY <2>1, <2>3 DEF FlushMove, FlushCall, DurableOk
    <3>2. /\ Drains(f, b) /\ Placed(b) /\ want'[b] = want[b] /\ asked'[b] = asked[b]
      BY <1>1, <1>4, <2>3, <3>1, DrainsStays
    <3>3. DrainAt(f, b) /\ WantKept(f)
      BY <3>2, WantMoves DEF DrainInv
    <3>4. FlushCall(f) => want[b] \subseteq Durable(asked[b]) \cup want'[f]
      BY <3>2, FlushTakesOver
    <3>5. QED BY <1>1, <2>1, <3>2, <3>3, <3>4, DrainGoesOn, ObjectShares
  <2>4. QED BY <2>2, <2>3
<1>5. QED BY <1>2, <1>3, <1>4 DEF DrainInv

\* A flush answered with ok has put in R2 the writes of every batch answered
\* before the flush arrived: the drain the benchmark route promises.
THEOREM FlushDrains == Spec => []DrainComplete
<1>1. Init => PastInv /\ MutexInv /\ ReadInv /\ DrainInv
  BY NoneAssumption
     DEF Init, EngineInit, PastInv, Logs, MutexInv, Holding, Live, ReadInv, Current,
         DrainInv, Drains, DrainAt, Ok
<1>2. DrainInv => DrainComplete
  BY DEF DrainInv, DrainAt, Drains, DrainComplete, Ok
<1>3. QED
  BY <1>1, <1>2, InitInv, NextInv, LogStarts, LogStays, PastStays, MutexInductive,
     ReadInductive, DrainInductive, PTL DEF Spec
=============================================================================
