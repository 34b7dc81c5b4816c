---------------------------- MODULE SlateDbObject ----------------------------
(***************************************************************************)
(* The Durable Object of durable-object/src/lib.rs: the one ActiveDb it    *)
(* keeps behind a mutex, the requests that share it, and its eviction.     *)
(*                                                                         *)
(* A request is admitted by Start and then runs handle(), one step per     *)
(* await.  database() and reopen() hold the mutex across the awaits of     *)
(* open() and close(); the operation itself runs on a clone of the Db with *)
(* the mutex released, so it may meet a Db that a later reopen is closing. *)
(* Puts and deletes are one kind: both wait for a durable write.  Scans    *)
(* are gets: both read the newest view.                                    *)
(***************************************************************************)
EXTENDS SlateDb, FiniteSets

CONSTANTS
    Kinds,      \* the kinds of request a configuration sends
    OneClient   \* the stream a put is written under

AllKinds == {"put", "get", "bench", "flush", "reopen", "stats"}

ASSUME KindsAssumption == Kinds \subseteq AllKinds
ASSUME OneClientAssumption == OneClient \in Clients
ASSUME NoneAssumption == None \notin Requests \cup Names

VARIABLES
    active,     \* the Db in self.active, or None
    lock,       \* the request that holds the mutex, or None
    pc,         \* where a request stands in handle()
    kind,       \* its route
    asked,      \* the database name in its path
    held,       \* its clone of a Db
    want,       \* the writes it waits for
    before,     \* history: the writes answered when a put or flush arrived
    orphans     \* Dbs whose object is gone; their R2 requests may still land

object == <<active, lock, orphans>>
calls  == <<pc, kind, asked, held, want, before>>
vars   == <<engine, object, calls>>

Waiting  == {"lock", "opening", "closing", "call", "sent"}
Answered == {"ok", "error", "lost"}
\* Databases that still have work of their own to do.
Live == {"building", "open", "closing"}

TypeOK ==
    /\ EngineTypeOK
    /\ active \in Requests \cup {None}
    /\ lock \in Requests \cup {None}
    /\ pc \in [Requests -> {"new"} \cup Waiting \cup Answered]
    /\ kind \in [Requests -> AllKinds \cup {None}]
    /\ asked \in [Requests -> Names \cup {None}]
    /\ held \in [Requests -> Requests \cup {None}]
    /\ want \in [Requests -> SUBSET Writes]
    /\ before \in [Requests -> SUBSET Requests]
    /\ orphans \in SUBSET Requests

Init ==
    /\ EngineInit
    /\ active = None
    /\ lock = None
    /\ pc = [r \in Requests |-> "new"]
    /\ kind = [r \in Requests |-> None]
    /\ asked = [r \in Requests |-> None]
    /\ held = [r \in Requests |-> None]
    /\ want = [r \in Requests |-> {}]
    /\ before = [r \in Requests |-> {}]
    /\ orphans = {}

----------------------------------------------------------------------------
Go(r, p) == pc' = [pc EXCEPT ![r] = p]

\* The object admits a request.
Start(r, k, n) ==
    /\ pc[r] = "new"
    /\ Go(r, "lock")
    /\ kind' = [kind EXCEPT ![r] = k]
    /\ asked' = [asked EXCEPT ![r] = n]
    /\ before' = [before EXCEPT ![r] =
                    {q \in Requests : /\ k \in {"put", "flush"} /\ pc[q] = "ok"
                                      /\ kind[q] \in {"put", "bench"}}]
    /\ UNCHANGED <<engine, object, held, want>>

UsesDatabase(r) == kind[r] \in {"put", "get", "bench", "flush"}

\* MUTANT: the name the object serves is not compared with the one asked for.
AnyName(r) == TRUE

RightName(r) == name[active] = asked[r]

\* database() finds another database open.
DatabaseWrongName(r) ==
    /\ pc[r] = "lock" /\ UsesDatabase(r)
    /\ lock = None
    /\ active # None /\ ~RightName(r)
    /\ Go(r, "error")
    /\ UNCHANGED <<engine, object, kind, asked, held, want, before>>

\* database() clones the open Db.
DatabaseOpen(r) ==
    /\ pc[r] = "lock" /\ UsesDatabase(r)
    /\ lock = None
    /\ active # None /\ RightName(r)
    /\ held' = [held EXCEPT ![r] = active]
    /\ Go(r, "call")
    /\ UNCHANGED <<engine, object, kind, asked, want, before>>

\* MUTANT: the guard is dropped before open() is awaited.
DropLock(r) == lock' = lock

\* The guard lives across the awaits that follow.
HoldLock(r) == lock' = r

\* database() finds none and awaits open() under the lock.
DatabaseOpening(r) ==
    /\ pc[r] = "lock" /\ UsesDatabase(r)
    /\ lock = None
    /\ active = None
    /\ HoldLock(r)
    /\ BuildStart(r, asked[r])
    /\ Go(r, "opening")
    /\ UNCHANGED <<active, orphans, kind, asked, held, want, before>>

\* MUTANT: reopen() drops the Db without awaiting close().
ReopenWithoutClose(r) ==
    /\ pc[r] = "lock" /\ kind[r] = "reopen"
    /\ lock = None
    /\ HoldLock(r)
    /\ active' = None
    /\ BuildStart(r, asked[r])
    /\ Go(r, "opening")
    /\ UNCHANGED <<orphans, kind, asked, held, want, before>>

\* reopen() takes the Db out of self.active and awaits its close(); with
\* nothing open it goes on to open().  It does not look at the open name.
Reopen(r) ==
    /\ pc[r] = "lock" /\ kind[r] = "reopen"
    /\ lock = None
    /\ HoldLock(r)
    /\ active' = None
    /\ \/ /\ active # None
          /\ held' = [held EXCEPT ![r] = active]
          /\ CloseStart(active)
          /\ Go(r, "closing")
       \/ /\ active = None
          /\ BuildStart(r, asked[r])
          /\ Go(r, "opening")
          /\ UNCHANGED held
    /\ UNCHANGED <<orphans, kind, asked, want, before>>

ReopenClosed(r) ==
    /\ pc[r] = "closing" /\ status[held[r]] = "closed"
    /\ BuildStart(r, asked[r])
    /\ Go(r, "opening")
    /\ UNCHANGED <<object, kind, asked, held, want, before>>

\* close().await? returns early: nothing is open and the lock is released.
ReopenCloseErr(r) ==
    /\ pc[r] = "closing" /\ status[held[r]] = "failed"
    /\ lock' = None
    /\ Go(r, "error")
    /\ UNCHANGED <<engine, active, orphans, kind, asked, held, want, before>>

\* open() returned: install the Db and release the lock.
Installed(r) ==
    /\ pc[r] = "opening" /\ Built(r)
    /\ active' = r
    /\ lock' = None
    /\ held' = [held EXCEPT ![r] = r]
    /\ Go(r, IF UsesDatabase(r) THEN "call" ELSE "ok")
    /\ UNCHANGED <<engine, orphans, kind, asked, want, before>>

\* MUTANT: the failed open leaves the mutex held.
OpenErrKeepsLock(r) ==
    /\ pc[r] = "opening" /\ status[r] = "failed" /\ ~Built(r)
    /\ Go(r, "error")
    /\ UNCHANGED <<engine, object, kind, asked, held, want, before>>

\* MUTANT: the outcome of open() is kept in self.active, error or not.
OpenErrInstalls(r) ==
    /\ pc[r] = "opening" /\ status[r] = "failed" /\ ~Built(r)
    /\ active' = "failed"
    /\ lock' = None
    /\ Go(r, "error")
    /\ UNCHANGED <<engine, orphans, kind, asked, held, want, before>>

\* MUTANT: the Db is installed before the outcome of open() is looked at.
OpenErrKeepsDb(r) ==
    /\ pc[r] = "opening" /\ status[r] = "failed" /\ ~Built(r)
    /\ active' = r
    /\ lock' = None
    /\ Go(r, "error")
    /\ UNCHANGED <<engine, orphans, kind, asked, held, want, before>>

\* open().await? returns early: self.active stays None, the lock is released.
OpenErr(r) ==
    /\ pc[r] = "opening" /\ status[r] = "failed" /\ ~Built(r)
    /\ lock' = None
    /\ Go(r, "error")
    /\ UNCHANGED <<engine, active, orphans, kind, asked, held, want, before>>

\* The stats route waits for the mutex too, and reads nothing but `active`.
Stats(r) ==
    /\ pc[r] = "lock" /\ kind[r] = "stats"
    /\ lock = None
    /\ \/ Go(r, "ok")
       \/ Go(r, "error")    \* the cache listing fails
    /\ UNCHANGED <<engine, object, kind, asked, held, want, before>>

----------------------------------------------------------------------------
\* A put or delete hands its write to the engine and waits.
Put(r) ==
    /\ pc[r] = "call" /\ kind[r] = "put"
    /\ Accept(held[r], <<r, OneClient>>)
    /\ want' = [want EXCEPT ![r] = {<<r, OneClient>>}]
    /\ Go(r, "sent")
    /\ UNCHANGED <<object, kind, asked, held, before>>

\* MUTANT: a put that does not await durability.
AwaitAccepted(r) == want[r] \subseteq View(held[r])

AwaitDurable(r) == want[r] \subseteq Known(held[r])

\* A put, a delete or a flush is answered once its writes are in R2.
DurableOk(r) ==
    /\ pc[r] = "sent" /\ kind[r] \in {"put", "flush"}
    /\ AwaitDurable(r)
    /\ Go(r, "ok")
    /\ UNCHANGED <<engine, object, kind, asked, held, want, before>>

\* MUTANT: the flush waits for nothing.
NothingToDrain(d) == {}

ToDrain(d) == buffer[d]

\* flush_with_options(MemTable) waits for what is buffered when it is called.
FlushCall(r) ==
    /\ pc[r] = "call" /\ kind[r] = "flush"
    /\ status[held[r]] = "open"
    /\ want' = [want EXCEPT ![r] = ToDrain(held[r])]
    /\ Go(r, "sent")
    /\ UNCHANGED <<engine, object, kind, asked, held, before>>

\* A get or a scan reads the view of its Db.
Get(r) ==
    /\ pc[r] = "call" /\ kind[r] = "get"
    /\ status[held[r]] = "open"
    /\ Go(r, "ok")
    /\ UNCHANGED <<engine, object, kind, asked, held, want, before>>

\* One stream of a batch writes without awaiting durability.
BenchPut(r, c) ==
    /\ pc[r] = "call" /\ kind[r] = "bench"
    /\ <<r, c>> \notin want[r]
    /\ Accept(held[r], <<r, c>>)
    /\ want' = [want EXCEPT ![r] = @ \cup {<<r, c>>}]
    /\ UNCHANGED <<object, pc, kind, asked, held, before>>

\* try_join_all: every stream is through.
BenchOk(r) ==
    /\ pc[r] = "call" /\ kind[r] = "bench"
    /\ want[r] = {r} \X Clients
    /\ Go(r, "ok")
    /\ UNCHANGED <<engine, object, kind, asked, held, want, before>>

\* try_join_all: the first error, also that of a get of a missing key, ends
\* the batch; what the streams wrote stays written.
BenchErr(r) ==
    /\ pc[r] = "call" /\ kind[r] = "bench"
    /\ Go(r, "error")
    /\ UNCHANGED <<engine, object, kind, asked, held, want, before>>

\* The engine refuses a call on a closing, closed or failed Db, and fails the
\* writes that were waiting when it failed.
CallErr(r) ==
    /\ pc[r] \in {"call", "sent"}
    /\ \/ pc[r] = "call" /\ status[held[r]] # "open"
       \/ pc[r] = "sent" /\ status[held[r]] \in {"closed", "failed"}
    /\ ~(pc[r] = "sent" /\ AwaitDurable(r))
    /\ Go(r, "error")
    /\ UNCHANGED <<engine, object, kind, asked, held, want, before>>

\* Eviction or a crash discards everything in memory; what the old isolate
\* sent to R2 may still land.
Evict ==
    /\ active # None \/ lock # None \/ \E r \in Requests : pc[r] \in Waiting
    /\ active' = None
    /\ lock' = None
    /\ orphans' = {d \in Requests : status[d] # "unused"}
    /\ pc' = [r \in Requests |-> IF pc[r] \in Waiting THEN "lost" ELSE pc[r]]
    /\ UNCHANGED <<engine, kind, asked, held, want, before>>

Engine(d) == EngineStep(d) /\ UNCHANGED <<object, calls>>

\* Nothing is left to do.
Quiescent ==
    /\ \A r \in Requests : pc[r] \in Answered
    /\ UNCHANGED vars

Handle(r) ==
    \/ DatabaseWrongName(r) \/ DatabaseOpen(r) \/ DatabaseOpening(r)
    \/ Reopen(r) \/ ReopenClosed(r) \/ ReopenCloseErr(r)
    \/ Installed(r) \/ OpenErr(r) \/ Stats(r)
    \/ Put(r) \/ DurableOk(r) \/ FlushCall(r) \/ Get(r)
    \/ (\E c \in Clients : BenchPut(r, c)) \/ BenchOk(r) \/ BenchErr(r)
    \/ CallErr(r)

Next ==
    \/ \E r \in Requests, k \in Kinds, n \in Names : Start(r, k, n)
    \/ \E r \in Requests : Handle(r)
    \/ \E d \in Requests : Engine(d)
    \/ Evict
    \/ Quiescent

Spec == Init /\ [][Next]_vars

\* The isolate polls every task that can run, and the engine's own tasks run
\* while their object lives.  Nothing is promised to the Dbs of a lost object.
OwnProgress(d) == d \notin orphans /\ Progress(d) /\ UNCHANGED <<object, calls>>

Fairness == \A r \in Requests : WF_vars(Handle(r)) /\ WF_vars(OwnProgress(r))

FairSpec == Spec /\ Fairness

----------------------------------------------------------------------------
Ok(r, k) == pc[r] = "ok" /\ kind[r] = k

AckedPuts(n) == {<<r, OneClient>> : r \in {q \in Requests : Ok(q, "put") /\ asked[q] = n}}

\* A write answered with ok is in R2, whatever is lost afterwards: an
\* evicted object, a failed Db, a fenced writer (README.md:10).
AckedDurable == \A n \in Names : AckedPuts(n) \subseteq Durable(n)

\* A request about to read from an open Db reads every write answered so far,
\* also those another Db of this object wrote before or after a reopen.
ReadsSeeAcks ==
    \A r \in Requests :
        pc[r] = "call" /\ status[held[r]] = "open"
            => AckedPuts(asked[r]) \subseteq View(held[r])

\* Nothing in R2 is rewritten or removed: every log grows at its end only.
LogOnlyGrows ==
    [][\A n \in Names : \A i \in DOMAIN wal[n] :
          i \in DOMAIN wal'[n] /\ wal'[n][i] = wal[n][i]]_vars

\* A Db with work of its own to do is the one installed, or belongs to the
\* request that holds the mutex, or its object is gone: no Db is forgotten
\* while it runs, and one object never runs two.  What is installed did
\* open: after an open that failed, the next request opens again.
LiveDbOwned ==
    /\ \A d \in Requests : status[d] \in Live /\ d \notin orphans
        => \/ active = d
           \/ lock = d /\ pc[d] = "opening"
           \/ lock # None /\ pc[lock] = "closing" /\ held[lock] = d
    /\ \A d, e \in Requests :
        {status[d], status[e]} \subseteq Live /\ {d, e} \cap orphans = {} => d = e
    /\ active # None => Built(active)

\* The final durability drain: when a flush is answered with ok, the writes of
\* every batch answered before the flush arrived are in R2, unless the Db that
\* took them failed or was evicted (durable-object/README.md:113).
DrainComplete ==
    \A f, b \in Requests :
        ( /\ Ok(f, "flush") /\ Ok(b, "bench") /\ b \in before[f]
          /\ asked[b] = asked[f]
          /\ status[held[b]] # "failed" /\ held[b] \notin orphans )
            => want[b] \subseteq Durable(asked[b])

\* A database's log holds only writes addressed to that database, even when
\* the object is routed two names.
NamesNeverMix ==
    \A n \in Names : \A w \in Durable(n) : asked[w[1]] = n

\* When one put was answered before another arrived, a reader of the log
\* meets them in that order.
RealTimeOrder ==
    \A n \in Names : \A i, j \in DOMAIN wal[n] :
        \A v \in wal[n][i].writes, w \in wal[n][j].writes :
            Ok(v[1], "put") /\ Ok(w[1], "put") /\ v[1] \in before[w[1]]
                => i < j

\* What a caller sees: the writes in each log, and the answers; one that was
\* dropped with its handler is lost too.
Logs == [n \in Names |-> [i \in DOMAIN wal[n] |-> wal[n][i].writes]]

Answers ==
    [r \in Requests |->
        IF pc[r] \in {"ok", "error"} THEN pc[r]
        ELSE IF pc[r] \in {"lost", "dropped"} THEN "lost" ELSE None]

Promise == INSTANCE WriteLog WITH Routes <- Kinds, log <- Logs, answer <- Answers

\* The object is a log of writes: each enters the log of the name its request
\* asked for at most once, in one object and after the request came, and the
\* caller of a put hears ok only when it has (README.md:10).
LogKept == Promise!Spec

\* Every admitted request is answered or lost with its object.
EveryRequestAnswered ==
    \A r \in Requests : pc[r] = "lock" ~> pc[r] \in Answered

=============================================================================
