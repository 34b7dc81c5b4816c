------------------------ MODULE ContainerServiceProofs ------------------------
(***************************************************************************)
(* What the container's process guarantees for any number of requests,     *)
(* streams and names, though its handlers may be dropped at any await and  *)
(* its process be shut down or replaced at any time.  The handlers are     *)
(* those of SlateDbObject and keep Shared and MutexInv as they do there;   *)
(* this module adds what clear_cache, a dropped handler, SIGTERM and a     *)
(* replacement do to them, why a Db that a dropped handler forgot, and     *)
(* that may still be open, hides no answered write from the reads, and why *)
(* the process is the log of writes that the object is.                    *)
(***************************************************************************)
EXTENDS ContainerService, SlateDbDataProofs

Serving == {"serving", "draining"}

\* While handlers run, the mutex orders them; when main() closes the Db, they
\* are done and only the Db it closes may still run.
ProcessInv ==
    /\ phase \in Serving => closer = None /\ MutexInv
    /\ phase \notin Serving =>
         /\ active = None /\ lock = None
         /\ \A r \in Requests : pc[r] \notin Busy
         /\ \A d \in Requests : status[d] \in Live /\ d \notin orphans
              => phase = "closing" /\ closer = d

\* What a batch wrote is buffered by its Db or in the log.
BatchInv(q) ==
    /\ pc[q] \in Early => want[q] = {}
    /\ kind[q] = "bench" /\ want[q] # {} => Placed(q)

ServiceInv ==
    /\ ServiceTypeOK /\ EngineInv /\ ObjectInv
    /\ ProcessInv
    /\ \A d \in Requests : status[d] = "closed" => buffer[d] = {}
    /\ \A q \in Requests : BatchInv(q)

\* What the lemmas about one handler need holds of the process.
LEMMA ServiceShares == ServiceInv => Shared
<1> SUFFICES ASSUME ServiceInv PROVE Shared
  OBVIOUS
<1>1. pc \in [Requests -> Places]
  BY DEF ServiceInv, ServiceTypeOK, Places, Busy, Ended
<1>2. QED BY <1>1 DEF ServiceInv, ServiceTypeOK, Shared

\* The handlers that are those of the object.
LEMMA SharedHandlers ==
    ASSUME NEW r \in Requests,
           \/ Database(r) \/ PutOrDelete(r) \/ OtherRoute(r) \/ BenchmarkBatch(r)
           \/ ReopenRoute(r) \/ RouteErr(r)
    PROVE  Handle(r) /\ UNCHANGED service
BY DEF Database, PutOrDelete, OtherRoute, BenchmarkBatch, ReopenRoute, RouteErr, Handle

\* A handler runs only while the process serves.
LEMMA HandleServes ==
    ASSUME ServiceInv, NEW r \in Requests, Handle(r)
    PROVE  phase \in Serving /\ closer = None /\ MutexInv
<1>1. pc[r] \in {"lock", "opening", "closing", "call", "sent"}
  BY DEF Handle, DatabaseWrongName, DatabaseOpen, DatabaseOpening, Reopen,
         ReopenClosed, ReopenCloseErr, Installed, OpenErr, Stats, Put, DurableOk,
         FlushCall, Get, BenchPut, BenchOk, BenchErr, CallErr
<1>2. QED BY <1>1 DEF ServiceInv, ProcessInv, Busy, Waiting

----------------------------------------------------------------------------
(* Every step of the process is a step of the engine or leaves it alone. *)

\* Every step of the process is a step of the engine or leaves the engine alone.
LEMMA ServiceMoves ==
    ASSUME ServiceInv, [ServiceNext]_serviceVars
    PROVE  EngineRuns /\ Keeps /\ EngineTypeOK' /\ EngineInv'
<1> USE DEF EngineMoves, engine
<1>0. EngineTypeOK /\ EngineInv /\ ObjectInv /\ active \in Requests \cup {None}
  BY DEF ServiceInv, ServiceTypeOK
<1>1. ASSUME NEW r \in Requests, Handler(r)
      PROVE  EngineMoves
  <2>1. CASE Handle(r)
    BY <2>1, HandleMoves, ServiceShares
  <2>2. CASE ClearCache(r)
    BY <1>0, <2>2 DEF ClearCache, EngineAny
  <2>3. CASE ClearClosed(r)
    BY <2>3 DEF ClearClosed
  <2>4. CASE Removed(r)
    <3>1. pc[r] = "removing" => asked[r] \in Names
      BY <1>0 DEF ObjectInv, CallInv
    <3>2. QED BY <2>4, <3>1 DEF Removed, EngineAny
  <2>5. QED BY <1>1, <2>1, <2>2, <2>3, <2>4, SharedHandlers DEF Handler
<1>2. EngineMoves
  <2>1. CASE \E r \in Requests, k \in ServiceKinds, n \in Names : Arrive(r, k, n)
    BY <2>1 DEF Arrive, Start
  <2>2. CASE \E r \in Requests : Dropped(r)
    BY <2>2 DEF Dropped
  <2>3. CASE \E d \in Requests : SlateDbTask(d)
    BY <2>3 DEF SlateDbTask, EngineAny
  <2>4. CASE ShutdownSignal \/ Exit \/ Replaced \/ AllEnded \/ UNCHANGED serviceVars
    BY <2>4 DEF ShutdownSignal, Exit, Replaced, AllEnded, vars, serviceVars
  <2>5. CASE CloseActive
    BY <1>0, <2>5 DEF CloseActive, EngineAny
  <2>6. QED
    BY <1>1, <2>1, <2>2, <2>3, <2>4, <2>5 DEF ServiceNext
<1>3. QED BY <1>0, <1>2, EngineKeeps DEF EngineRuns

----------------------------------------------------------------------------
(* What every step keeps of the requests. *)

\* A request that is left alone, ends with its handler, or waits for the cache
\* directory.
Still(q) ==
    /\ held'[q] = held[q]
    /\ \/ pc'[q] = pc[q]
       \/ pc[q] # "new" /\ pc'[q] \in {"lost", "dropped", "error"}
       \/ pc[q] \in {"lock", "closing"} /\ pc'[q] = "removing"

\* A clear_cache that begins to close or to open a Db.
Turns(q) ==
    /\ pc[q] \in Early \ {"new"}
    /\ \/ pc'[q] = "closing" /\ held'[q] \in Requests
       \/ /\ pc'[q] = "opening" /\ held'[q] = held[q]
          /\ status'[q] # "unused" /\ name'[q] = asked[q]

RequestKept(q) ==
    /\ CallInv(q)' /\ WantKept(q)
    /\ pc[q] # "new" => kind'[q] = kind[q] /\ asked'[q] = asked[q]
    /\ Ok(q, "put")' => (Ok(q, "put") \/ DurableOk(q)) /\ asked'[q] = asked[q]

\* Such steps keep what the request knows.
LEMMA StillKept ==
    ASSUME ServiceInv, Keeps, UNCHANGED <<kind, asked, want>>,
           NEW q \in Requests, Still(q) \/ Turns(q)
    PROVE  RequestKept(q)
<1>1. Shared /\ CallInv(q)
  BY ServiceShares DEF ServiceInv, ObjectInv
<1>2. CASE Still(q)
  <2>1. pc'[q] = pc[q] \/ (pc[q] # "new" /\ pc'[q] \in Answered \cup {"removing", "dropped"})
    BY <1>2 DEF Still, Answered
  <2>2. CallInv(q)'
    BY <1>1, <1>2, <2>1, CallKept DEF Still
  <2>3. WantKept(q)
    BY <1>2 DEF Still, WantKept, Early
  <2>4. QED BY <1>2, <2>2, <2>3 DEF Still, RequestKept, Ok
<1>3. CASE Turns(q)
  <2>1. CallInv(q)'
    BY <1>1, <1>3 DEF Turns, CallInv, Early
  <2>2. WantKept(q)
    BY <1>3 DEF Turns, WantKept
  <2>3. QED BY <1>3, <2>1, <2>2 DEF Turns, RequestKept, Ok
<1>4. QED BY <1>2, <1>3

\* A handler of the object keeps what it keeps there.
LEMMA HandleKept ==
    ASSUME ServiceInv, Keeps, EngineTypeOK', NEW r \in Requests, Handle(r), UNCHANGED service
    PROVE  /\ ServiceTypeOK'
           /\ active' # None => active' \in Requests /\ status'[active'] # "unused"
           /\ \A q \in Requests : RequestKept(q)
<1>1. Shared /\ Kept(r)
  BY ServiceShares, HandleKeeps
<1>2. ServiceTypeOK'
  <2>1. pc' \in [Requests -> {"new"} \cup Busy \cup Ended]
    BY <1>1 DEF Kept, OnlyMoves, ServiceInv, ServiceTypeOK, Busy, Ended, Places
  <2>2. QED BY <1>1, <2>1 DEF Kept, ServiceInv, ServiceTypeOK, service
<1>3. ASSUME NEW q \in Requests PROVE RequestKept(q)
  <2>1. CallInv(q)'
    BY <1>1, CallKept DEF Kept, OnlyMoves
  <2>2. WantKept(q)
    BY <1>1, HandleWants
  <2>3. Ok(q, "put")' => Ok(q, "put") \/ DurableOk(q)
    BY <1>1, HandleAcks
  <2>4. QED BY <1>1, <2>1, <2>2, <2>3 DEF Kept, RequestKept
<1>4. QED BY <1>1, <1>2, <1>3 DEF Kept

\* The steps that only the container takes.
LEMMA OwnStepKept ==
    ASSUME ServiceInv, Keeps, EngineTypeOK',
           \/ \E r \in Requests : ClearCache(r) \/ ClearClosed(r) \/ Removed(r) \/ Dropped(r)
           \/ \E d \in Requests : SlateDbTask(d)
           \/ ShutdownSignal \/ CloseActive \/ Exit \/ Replaced
           \/ AllEnded \/ UNCHANGED serviceVars
    PROVE  /\ ServiceTypeOK'
           /\ active' # None => active' \in Requests /\ status'[active'] # "unused"
           /\ \A q \in Requests : RequestKept(q)
<1> DEFINE Goal == /\ ServiceTypeOK'
                   /\ active' # None => active' \in Requests /\ status'[active'] # "unused"
                   /\ \A q \in Requests : RequestKept(q)
           PcOK == [Requests -> {"new"} \cup Busy \cup Ended]
<1>0. /\ ServiceTypeOK
      /\ active # None => active \in Requests /\ status[active] # "unused"
      /\ pc \in PcOK /\ held \in [Requests -> Requests \cup {None}]
      /\ status \in [Requests -> Status] /\ name \in [Requests -> Names \cup {None}]
  BY DEF ServiceInv, ObjectInv, ServiceTypeOK, EngineTypeOK
<1>1. ASSUME active' \in {active, None}, lock' \in Requests \cup {None},
             pc' \in PcOK, held' \in [Requests -> Requests \cup {None}],
             UNCHANGED <<kind, asked, want, before>>, orphans' \in SUBSET Requests,
             phase' \in {"serving", "draining", "closing", "exited"},
             closer' \in Requests \cup {None}, removal' \in SUBSET Requests,
             \A q \in Requests : Still(q) \/ Turns(q)
      PROVE  Goal
  <2>1. ServiceTypeOK'
    BY <1>0, <1>1 DEF ServiceTypeOK
  <2>2. active' # None => active' \in Requests /\ status'[active'] # "unused"
    BY <1>0, <1>1 DEF Keeps
  <2>3. \A q \in Requests : RequestKept(q)
    BY <1>1, StillKept
  <2>4. QED BY <2>1, <2>2, <2>3
<1>2. ASSUME NEW r \in Requests, ClearCache(r) PROVE Goal
  <2>1. \A q \in Requests : q # r => pc'[q] = pc[q] /\ held'[q] = held[q]
    BY <1>0, <1>2 DEF ClearCache, Go
  <2>2. Still(r) \/ Turns(r)
    BY <1>0, <1>2 DEF ClearCache, Go, Still, Turns, Early
  <2>3. \A q \in Requests : Still(q) \/ Turns(q)
    BY <2>1, <2>2 DEF Still
  <2>4. pc' \in PcOK /\ held' \in [Requests -> Requests \cup {None}]
    BY <1>0, <1>2 DEF ClearCache, Go, Busy, Waiting
  <2>5. QED BY <1>0, <1>1, <1>2, <2>3, <2>4 DEF ClearCache, HoldLock, ServiceTypeOK
<1>3. ASSUME NEW r \in Requests, ClearClosed(r) PROVE Goal
  <2>1. \A q \in Requests : Still(q)
    BY <1>0, <1>3 DEF ClearClosed, Go, Still
  <2>2. pc' \in PcOK
    BY <1>0, <1>3 DEF ClearClosed, Go, Busy
  <2>3. QED BY <1>0, <1>1, <1>3, <2>1, <2>2 DEF ClearClosed, object, ServiceTypeOK
<1>4. ASSUME NEW r \in Requests, Removed(r) PROVE Goal
  <2>1. Still(r) \/ Turns(r)
    BY <1>0, <1>4 DEF Removed, Go, Still, Turns, Early, BuildStart
  <2>2. \A q \in Requests : q # r => pc'[q] = pc[q]
    BY <1>0, <1>4 DEF Removed, Go
  <2>3. \A q \in Requests : Still(q) \/ Turns(q)
    BY <1>4, <2>1, <2>2 DEF Removed, Still
  <2>4. pc' \in PcOK
    BY <1>0, <1>4 DEF Removed, Go, Busy, Waiting, Ended, Answered
  <2>5. QED BY <1>0, <1>1, <1>4, <2>3, <2>4 DEF Removed, ServiceTypeOK
<1>5. ASSUME NEW r \in Requests, Dropped(r) PROVE Goal
  <2>1. \A q \in Requests : Still(q)
    BY <1>0, <1>5 DEF Dropped, Go, Still, Busy, Waiting
  <2>2. pc' \in PcOK
    BY <1>0, <1>5 DEF Dropped, Go, Ended
  <2>3. Forgotten(r) \in SUBSET Requests
    <3>1. pc[r] = "closing" => held[r] \in Requests
      BY DEF ServiceInv, ObjectInv, CallInv
    <3>2. QED BY <3>1 DEF Forgotten
  <2>4. QED BY <1>0, <1>1, <1>5, <2>1, <2>2, <2>3 DEF Dropped, ServiceTypeOK, service
<1>6. CASE UNCHANGED <<object, calls, service>>
  BY <1>0, <1>1, <1>6 DEF object, calls, service, Still, ServiceTypeOK
<1>7. CASE ShutdownSignal \/ Exit
  BY <1>0, <1>1, <1>7 DEF ShutdownSignal, Exit, vars, object, calls, Still, ServiceTypeOK
<1>8. CASE CloseActive
  BY <1>0, <1>1, <1>8 DEF CloseActive, calls, Still, ServiceTypeOK
<1>9. CASE Replaced
  <2>1. \A q \in Requests : Still(q)
    BY <1>9 DEF Replaced, Still, Busy, Waiting
  <2>2. pc' \in PcOK
    BY <1>0, <1>9 DEF Replaced, Ended, Answered
  <2>3. QED BY <1>0, <1>1, <1>9, <2>1, <2>2 DEF Replaced, ServiceTypeOK
<1>10. QED
  BY <1>2, <1>3, <1>4, <1>5, <1>6, <1>7, <1>8, <1>9
     DEF SlateDbTask, AllEnded, serviceVars, vars

\* A request that arrives knows nothing yet.
LEMMA ArriveKept ==
    ASSUME ServiceInv, Keeps, EngineTypeOK',
           NEW r \in Requests, NEW k \in ServiceKinds, NEW n \in Names, Arrive(r, k, n)
    PROVE  /\ ServiceTypeOK'
           /\ active' # None => active' \in Requests /\ status'[active'] # "unused"
           /\ \A q \in Requests : RequestKept(q)
<1>0. /\ ServiceTypeOK
      /\ active # None => active \in Requests /\ status[active] # "unused"
      /\ Shared
  BY ServiceShares DEF ServiceInv, ObjectInv
<1>1. /\ pc[r] = "new" /\ pc'[r] = "lock" /\ asked'[r] = n
      /\ UNCHANGED <<active, lock, orphans, held, want, service>>
  BY <1>0 DEF Arrive, Start, Go, ServiceTypeOK, object
<1>2. ServiceTypeOK'
  BY <1>0 DEF Arrive, Start, Go, ServiceTypeOK, Busy, Waiting, object, service
<1>3. ASSUME NEW q \in Requests PROVE RequestKept(q)
  <2>1. CASE q = r
    BY <1>1, <2>1 DEF RequestKept, CallInv, WantKept, Early, Ok
  <2>2. CASE q # r
    <3>1. pc'[q] = pc[q] /\ kind'[q] = kind[q] /\ asked'[q] = asked[q]
      BY <1>0, <2>2 DEF Arrive, Start, Go, ServiceTypeOK
    <3>2. CallInv(q)'
      BY <1>0, <1>1, <3>1, CallKept
    <3>3. QED BY <1>1, <3>1, <3>2 DEF RequestKept, WantKept, Early, Ok
  <2>3. QED BY <2>1, <2>2
<1>4. QED BY <1>0, <1>1, <1>2, <1>3 DEF Keeps

\* Whatever step is taken, the requests keep what they know.
LEMMA RequestsKept ==
    ASSUME ServiceInv, [ServiceNext]_serviceVars
    PROVE  /\ ServiceTypeOK'
           /\ active' # None => active' \in Requests /\ status'[active'] # "unused"
           /\ \A q \in Requests : RequestKept(q)
<1>1. Keeps /\ EngineTypeOK'
  BY ServiceMoves
<1>2. CASE \E r \in Requests : Handler(r) /\ ~ClearCache(r) /\ ~ClearClosed(r) /\ ~Removed(r)
  <2>1. PICK r \in Requests : Handle(r) /\ UNCHANGED service
    BY <1>2, SharedHandlers DEF Handler
  <2>2. QED BY <1>1, <2>1, HandleKept
<1>3. CASE \E r \in Requests, k \in ServiceKinds, n \in Names : Arrive(r, k, n)
  BY <1>1, <1>3, ArriveKept
<1>4. CASE \/ \E r \in Requests : ClearCache(r) \/ ClearClosed(r) \/ Removed(r) \/ Dropped(r)
           \/ \E d \in Requests : SlateDbTask(d)
           \/ ShutdownSignal \/ CloseActive \/ Exit \/ Replaced
           \/ AllEnded \/ UNCHANGED serviceVars
  BY <1>1, <1>4, OwnStepKept
<1>5. QED BY <1>2, <1>3, <1>4 DEF ServiceNext

----------------------------------------------------------------------------
(* The mutex and main(). *)

\* No step but BuildStart makes a Db run.
LEMMA TaskWakesNone ==
    ASSUME EngineTypeOK, NEW e \in Requests, EngineStep(e) \/ CloseStart(e)
    PROVE  \A d \in Requests : status'[d] \in Live => status[d] \in Live
<1>1. status \in [Requests -> Status]
  BY DEF EngineTypeOK
<1>2. \/ status' = status
      \/ status[e] = "building" /\ status' = [status EXCEPT ![e] = "open"]
      \/ status[e] = "open" /\ status' = [status EXCEPT ![e] = "closing"]
      \/ \E s \in {"failed", "closed"} : status' = [status EXCEPT ![e] = s]
  BY <1>1 DEF EngineStep, Progress, BuildOk, BuildErr, Flush, Fenced, Breaks, CloseOk,
              CloseStart
<1>3. QED BY <1>1, <1>2 DEF Live

\* With the mutex free and no Db running, or the holder's Db closed, a handler
\* holds the mutex while the directory is removed.
LEMMA ClearOwned ==
    ASSUME ServiceInv, NEW r \in Requests, ClearCache(r) \/ ClearClosed(r)
    PROVE  ProcessInv'
<1>0. /\ Shared /\ MutexInv /\ phase \in Serving /\ closer = None
      /\ phase' = phase /\ closer' = closer
  <2>1. pc[r] \in Busy
    BY DEF ClearCache, ClearClosed, Busy, Waiting
  <2>2. QED BY <2>1, ServiceShares DEF ServiceInv, ProcessInv, ClearCache, ClearClosed
<1>1. /\ pc \in [Requests -> Places] /\ held \in [Requests -> Requests \cup {None}]
      /\ active \in Requests \cup {None} /\ EngineTypeOK
  BY <1>0 DEF Shared
<1>2. MutexInv'
  <2>1. CASE ClearCache(r) /\ active # None
    <3>1. /\ lock = None /\ lock' = r /\ active' = None /\ orphans' = orphans
          /\ pc'[r] = "closing" /\ held'[r] = active
          /\ \A q \in Requests : q # r => pc'[q] = pc[q]
          /\ CloseStart(active)
      BY <1>1, <2>1 DEF ClearCache, HoldLock, Go
    <3>2. \A d \in Requests : status'[d] \in Live => status[d] \in Live
      BY <1>1, <2>1, <3>1, TaskWakesNone
    <3>3. \A q \in Requests : pc[q] \notin Holding
      BY <1>0, <3>1, NoneAssumption DEF MutexInv
    <3>4. \A d \in Requests : status[d] \in Live /\ d \notin orphans => d = active
      BY <1>0, <3>1, NoneAssumption DEF MutexInv, Owned
    <3>5. QED BY <3>1, <3>2, <3>3, <3>4, NoneAssumption DEF MutexInv, Owned, Holding
  <2>2. CASE ClearClosed(r) \/ (ClearCache(r) /\ active = None)
    <3>1. /\ lock' = r /\ active = None /\ active' = None /\ orphans' = orphans
          /\ status' = status /\ lock \in {None, r}
          /\ pc' = [pc EXCEPT ![r] = "removing"]
          /\ lock = r => status[held[r]] = "closed" /\ pc[r] = "closing"
      BY <1>0, <2>2, NoneAssumption
         DEF ClearCache, ClearClosed, HoldLock, Go, MutexInv, Holding, engine, object
    <3>2. \A q \in Requests : q # r => pc[q] \notin Holding
      BY <1>0, <3>1, NoneAssumption DEF MutexInv
    <3>3. ASSUME NEW d \in Requests, status[d] \in Live, d \notin orphans PROVE FALSE
      <4>1. lock = r /\ held[r] = d
        BY <1>0, <3>1, <3>3, NoneAssumption DEF MutexInv, Owned
      <4>2. QED BY <3>1, <3>3, <4>1 DEF Live
    <3>4. pc'[r] = "removing" /\ \A q \in Requests : q # r => pc'[q] = pc[q]
      BY <1>1, <3>1
    <3>5. QED BY <3>1, <3>2, <3>3, <3>4 DEF MutexInv, Holding
  <2>3. QED BY <2>1, <2>2
<1>3. QED BY <1>0, <1>2 DEF ProcessInv

\* When the directory is gone the handler opens, or gives the mutex back.
LEMMA RemovedOwned ==
    ASSUME ServiceInv, NEW r \in Requests, Removed(r)
    PROVE  ProcessInv'
<1>1. CASE pc[r] # "removing"
  <2>1. UNCHANGED <<engine, object, pc, held, phase, closer>>
    BY <1>1 DEF Removed, object
  <2>2. QED
    BY <2>1 DEF ServiceInv, ProcessInv, MutexInv, Owned, engine, object
<1>2. CASE pc[r] = "removing"
  <2>0. /\ Shared /\ MutexInv /\ phase \in Serving /\ closer = None
        /\ phase' = phase /\ closer' = closer
    BY <1>2, ServiceShares DEF ServiceInv, ProcessInv, Removed, Busy
  <2>1. /\ pc \in [Requests -> Places] /\ status \in [Requests -> Status]
        /\ lock = r /\ active = None /\ active' = None /\ orphans' = orphans
    BY <1>2, <2>0, NoneAssumption DEF Shared, EngineTypeOK, MutexInv, Holding, Removed
  <2>2. \A q \in Requests : q # r => pc[q] \notin Holding
    BY <2>0, <2>1 DEF MutexInv
  <2>3. \A d \in Requests : status[d] \in Live => d \in orphans
    BY <1>2, <2>0, <2>1, NoneAssumption DEF MutexInv, Owned
  <2>4. CASE lock' = lock /\ BuildStart(r, asked[r]) /\ Go(r, "opening")
    <3>1. /\ pc'[r] = "opening"
          /\ \A q \in Requests : q # r => pc'[q] = pc[q] /\ status'[q] = status[q]
      BY <2>1, <2>4 DEF Go, BuildStart
    <3>2. MutexInv'
      BY <2>1, <2>2, <2>3, <2>4, <3>1 DEF MutexInv, Owned, Holding
    <3>3. QED BY <2>0, <3>2 DEF ProcessInv
  <2>5. CASE Go(r, "error") /\ lock' = None /\ UNCHANGED engine
    <3>1. pc'[r] = "error" /\ \A q \in Requests : q # r => pc'[q] = pc[q]
      BY <2>1, <2>5 DEF Go
    <3>2. MutexInv'
      BY <2>1, <2>2, <2>3, <2>5, <3>1 DEF MutexInv, Holding, engine
    <3>3. QED BY <2>0, <3>2 DEF ProcessInv
  <2>6. QED BY <1>2, <2>4, <2>5 DEF Removed
<1>3. QED BY <1>1, <1>2

\* A dropped handler gives the mutex back and forgets its Db.
LEMMA DroppedOwned ==
    ASSUME ServiceInv, NEW r \in Requests, Dropped(r)
    PROVE  ProcessInv'
<1>0. /\ Shared /\ MutexInv /\ phase \in Serving /\ closer = None
      /\ phase' = phase /\ closer' = closer
  BY ServiceShares DEF ServiceInv, ProcessInv, Dropped, service
<1>1. /\ pc \in [Requests -> Places] /\ lock \in Requests \cup {None}
      /\ active' = active /\ status' = status /\ held' = held
      /\ pc'[r] = "dropped" /\ \A q \in Requests : q # r => pc'[q] = pc[q]
      /\ lock' = (IF lock = r THEN None ELSE lock)
      /\ orphans' = orphans \cup Forgotten(r)
  BY <1>0 DEF Shared, Dropped, Go, engine
<1>2. ASSUME NEW d \in Requests, status'[d] \in Live, d \notin orphans'
      PROVE  Owned(d)'
  <2>1. Owned(d)
    BY <1>0, <1>1, <1>2 DEF MutexInv
  <2>2. CASE lock = r
    <3>1. ~(pc[r] = "opening" /\ d = r) /\ ~(pc[r] = "closing" /\ held[r] = d)
      BY <1>1, <1>2 DEF Forgotten
    <3>2. active = d
      BY <2>1, <2>2, <3>1 DEF Owned
    <3>3. QED BY <1>1, <3>2 DEF Owned
  <2>3. CASE lock # r
    BY <1>1, <2>1, <2>3, NoneAssumption DEF Owned
  <2>4. QED BY <2>2, <2>3
<1>3. lock' # None => active' = None /\ pc'[lock'] \in Holding
  BY <1>0, <1>1 DEF MutexInv
<1>4. ASSUME NEW q \in Requests, pc'[q] \in Holding PROVE lock' = q
  <2>1. q # r /\ lock = q
    BY <1>0, <1>1, <1>4 DEF MutexInv, Holding
  <2>2. QED BY <1>1, <2>1
<1>5. QED BY <1>0, <1>2, <1>3, <1>4 DEF ProcessInv, MutexInv

\* main() takes the Db when no handler runs, closes it and ends.
LEMMA MainOwned ==
    ASSUME ServiceInv, ShutdownSignal \/ CloseActive \/ Exit \/ Replaced
    PROVE  ProcessInv'
<1>0. ServiceTypeOK /\ ProcessInv /\ Shared
  BY ServiceShares DEF ServiceInv
<1>1. CASE ShutdownSignal
  BY <1>0, <1>1
     DEF ShutdownSignal, ProcessInv, MutexInv, Owned, Serving, vars, object, calls, engine
<1>2. CASE CloseActive
  <2>1. /\ MutexInv /\ closer = None /\ \A r \in Requests : pc[r] \notin Busy
        /\ active' = None /\ lock' = lock /\ orphans' = orphans /\ pc' = pc
    BY <1>0, <1>2 DEF CloseActive, Drained, ProcessInv, Serving, calls
  <2>2. lock = None
    <3>1. lock # None => pc[lock] \in Busy
      BY <2>1 DEF MutexInv, Holding, Busy, Waiting
    <3>2. QED BY <1>0, <2>1, <3>1 DEF ServiceTypeOK
  <2>3. \A d \in Requests : status[d] \in Live /\ d \notin orphans => active = d
    BY <2>1, <2>2, NoneAssumption DEF MutexInv, Owned
  <2>4. \A d \in Requests : status'[d] \in Live => status[d] \in Live
    <3>1. CASE active # None
      BY <1>0, <1>2, <3>1, TaskWakesNone DEF CloseActive, ServiceTypeOK
    <3>2. CASE active = None
      BY <1>2, <3>2 DEF CloseActive, engine
    <3>3. QED BY <3>1, <3>2
  <2>5. \/ phase' = "closing" /\ closer' = active
        \/ phase' = "exited" /\ active = None
    BY <1>2 DEF CloseActive
  <2>6. QED BY <2>1, <2>2, <2>3, <2>4, <2>5, NoneAssumption DEF ProcessInv, Serving
<1>3. CASE Exit
  <2>1. /\ phase = "closing" /\ phase' = "exited" /\ status[closer] \in {"closed", "failed"}
        /\ UNCHANGED <<active, lock, pc, orphans, status>>
    BY <1>3 DEF Exit, vars, object, calls, engine
  <2>2. QED BY <1>0, <2>1 DEF ProcessInv, Serving, Live
<1>4. CASE Replaced
  <2>1. \A q \in Requests : pc'[q] \notin Holding
    BY <1>4 DEF Replaced, Busy, Waiting, Holding
  <2>2. \A d \in Requests : status'[d] \in Live => d \in orphans'
    BY <1>4 DEF Replaced, engine, Live
  <2>3. QED BY <1>4, <2>1, <2>2 DEF Replaced, MutexInv, ProcessInv, Serving
<1>5. QED BY <1>1, <1>2, <1>3, <1>4

\* Every step keeps the mutex and what main() relies on.
LEMMA ProcessInductive ==
    ASSUME ServiceInv, [ServiceNext]_serviceVars
    PROVE  ProcessInv'
<1>0. Shared /\ ProcessInv
  BY ServiceShares DEF ServiceInv
<1>1. ASSUME NEW r \in Requests, Handle(r), UNCHANGED service
      PROVE  ProcessInv'
  <2>1. phase \in Serving /\ closer = None /\ MutexInv
    BY <1>1, HandleServes
  <2>2. MutexInv'
    BY <1>0, <1>1, <2>1, BystanderOwned, OpeningOwned, ClosingOwned, ReleaseOwned DEF Handle
  <2>3. QED BY <1>1, <2>1, <2>2 DEF ProcessInv, service
<1>2. ASSUME NEW r \in Requests, NEW k \in ServiceKinds, NEW n \in Names, Arrive(r, k, n)
      PROVE  ProcessInv'
  <2>1. /\ UNCHANGED <<active, lock, orphans, status, held, phase, closer>>
        /\ pc[r] = "new" /\ pc' = [pc EXCEPT ![r] = "lock"]
        /\ phase = "serving"
    BY <1>2 DEF Arrive, Start, Go, engine, object, service
  <2>2. \A q \in Requests : pc'[q] = pc[q] \/ (pc[q] = "new" /\ pc'[q] = "lock")
    BY <1>0, <2>1 DEF Shared
  <2>3. MutexInv'
    BY <1>0, <2>1, <2>2, UnlockedKeeps DEF Holding, ProcessInv, Serving
  <2>4. QED BY <1>0, <2>1, <2>3 DEF ProcessInv, Serving
<1>3. ASSUME NEW d \in Requests, SlateDbTask(d)
      PROVE  ProcessInv'
  <2>1. Engine(d) /\ UNCHANGED <<phase, closer, active, lock, orphans, pc>>
    BY <1>3 DEF SlateDbTask, Engine, object, calls, service
  <2>2. CASE phase \in Serving
    BY <1>0, <2>1, <2>2, EngineOwned DEF ProcessInv
  <2>3. CASE phase \notin Serving
    <3>1. \A e \in Requests : status'[e] \in Live => status[e] \in Live
      BY <1>0, <1>3, TaskWakesNone DEF SlateDbTask, Shared
    <3>2. QED BY <1>0, <2>1, <2>3, <3>1 DEF ProcessInv
  <2>4. QED BY <2>2, <2>3
<1>4. CASE UNCHANGED serviceVars
  BY <1>0, <1>4
     DEF serviceVars, vars, engine, object, calls, service, ProcessInv, MutexInv, Owned
<1>5. QED
  BY <1>1, <1>2, <1>3, <1>4, SharedHandlers, ClearOwned, RemovedOwned, DroppedOwned,
     MainOwned DEF ServiceNext, Handler, AllEnded

----------------------------------------------------------------------------
(* What the batches wrote. *)

\* Every step keeps a batch's writes in its Db's buffer or in the log.
LEMMA BatchKept ==
    ASSUME ServiceInv, [ServiceNext]_serviceVars, NEW q \in Requests
    PROVE  BatchInv(q)'
<1>0. /\ EngineRuns /\ Keeps /\ RequestKept(q) /\ Shared /\ BatchInv(q)
  BY ServiceMoves, RequestsKept, ServiceShares DEF ServiceInv
<1>1. want'[q] # want[q] =>
        /\ pc[q] = "call"
        /\ kind[q] = "bench" => \E c \in Clients : BenchPut(q, c)
  BY <1>0 DEF RequestKept, WantKept, Put, FlushCall, BenchPut
<1>2. pc'[q] \in Early => want'[q] = {}
  <2>1. pc'[q] \in Early => pc[q] \in Early
    BY <1>0 DEF RequestKept, WantKept
  <2>2. QED BY <1>0, <1>1, <2>1 DEF BatchInv, Early
<1>3. ASSUME kind'[q] = "bench", want'[q] # {}
      PROVE  Placed(q)'
  <2>1. pc[q] # "new" /\ kind[q] = "bench" /\ asked'[q] = asked[q]
    BY <1>0, <1>1, <1>3 DEF RequestKept, BatchInv, Early
  <2>2. CASE want'[q] = want[q]
    <3>1. Placed(q) /\ held'[q] = held[q]
      BY <1>0, <1>3, <2>1, <2>2 DEF BatchInv, RequestKept, WantKept
    <3>2. QED BY <1>0, <2>1, <2>2, <3>1, PlacedStays
  <2>3. CASE want'[q] # want[q]
    <3>1. PICK c \in Clients : BenchPut(q, c)
      BY <1>1, <2>1, <2>3
    <3>2. QED BY <1>0, <2>1, <3>1, BenchPlaces DEF BatchInv
  <2>4. QED BY <2>2, <2>3
<1>4. QED BY <1>2, <1>3 DEF BatchInv

----------------------------------------------------------------------------
(***************************************************************************)
(* Reads.  Nothing ties a forgotten Db to the process any more: it may     *)
(* still be open, and may still put its fence into the log.  What a read   *)
(* relies on is that no such Db ever served: the Dbs that did, those some  *)
(* request held, all stand behind the one that is installed, and only that *)
(* one is open.                                                            *)
(***************************************************************************)

\* d was installed.
Served(d) == held[d] = d

\* e stands past every other Db of its name that was ever installed.
Top(e) ==
    \A d \in Requests : Served(d) /\ d # e /\ name[d] = name[e] => next[d] < next[e]

HeldInv(r) ==
    /\ pc[r] \in {"new", "lock"} => held[r] = None
    /\ pc[r] \in Holding => held[r] # r
    /\ held[r] # None => Served(held[r]) /\ Built(held[r])

TopInv ==
    /\ active # None => Served(active) /\ Top(active)
    /\ \A r \in Requests : pc[r] = "opening" /\ Built(r) => Top(r)

\* The Db that q holds is of the name it asked for and knows its write.
Remembered(q) ==
    /\ held[q] \in Requests /\ name[held[q]] = asked[q]
    /\ <<q, OneClient>> \in Known(held[q])

AnswerInv(q) ==
    /\ pc[q] \in {"call", "sent"} /\ status[held[q]] = "open" => held[q] = active
    /\ Ok(q, "put") => Remembered(q)

ServedInv == TopInv /\ \A r \in Requests : HeldInv(r) /\ AnswerInv(r)

\* What a step does to the Db that a request holds.
HoldsOn(q) ==
    /\ held'[q] = held[q]
    /\ pc'[q] \in {"new", "lock"} => pc[q] \in {"new", "lock"}
    /\ pc'[q] \in {"call", "sent"} => pc[q] \in {"call", "sent"}
    /\ pc'[q] \in Holding => pc[q] \in Holding \cup {"lock"}
    /\ pc'[q] = "opening" => pc[q] = "opening" \/ (status[q] = "unused" /\ UNCHANGED next)

Takes(q) ==
    /\ pc[q] = "lock" /\ active # None /\ held'[q] = active
    /\ \/ pc'[q] = "call" /\ active' = active
       \/ pc'[q] = "closing"

\* What it does to the installed Db.
ActiveMoves ==
    \/ active' = active
    \/ active' = None /\ (active # None => status'[active] # "open")
    \/ active' = None /\ \A q \in Requests : pc'[q] \notin Busy
    \/ \E r \in Requests : Installed(r)

\* The handlers of the object hold, take or install a Db.
LEMMA HandleReads ==
    ASSUME ServiceInv, Keeps, NEW r \in Requests, Handle(r)
    PROVE  ActiveMoves /\ \A q \in Requests : HoldsOn(q) \/ Takes(q) \/ Installed(q)
<1>0. Shared /\ Kept(r)
  BY ServiceShares, HandleKeeps
<1>1. pc \in [Requests -> Places] /\ held \in [Requests -> Requests \cup {None}]
      /\ status \in [Requests -> Status]
  BY <1>0 DEF Shared, EngineTypeOK
<1>2. \A q \in Requests : q # r => HoldsOn(q)
  BY <1>0 DEF Kept, OnlyMoves, HoldsOn
<1>3. CASE DatabaseWrongName(r) \/ Stats(r) \/ DurableOk(r) \/ Get(r) \/ BenchOk(r)
           \/ BenchErr(r) \/ CallErr(r) \/ ReopenCloseErr(r) \/ OpenErr(r)
  <2>1. active' = active /\ held' = held /\ (Go(r, "ok") \/ Go(r, "error"))
    BY <1>3 DEF DatabaseWrongName, Stats, DurableOk, Get, BenchOk, BenchErr, CallErr,
                ReopenCloseErr, OpenErr, object
  <2>2. HoldsOn(r)
    BY <1>1, <2>1 DEF Go, HoldsOn, Holding
  <2>3. QED BY <1>2, <2>1, <2>2 DEF ActiveMoves
<1>4. CASE DatabaseOpen(r)
  <2>1. active' = active /\ Takes(r)
    BY <1>1, <1>4 DEF DatabaseOpen, Go, object, Takes
  <2>2. QED BY <1>2, <2>1 DEF ActiveMoves
<1>5. CASE DatabaseOpening(r) \/ ReopenClosed(r) \/ (Reopen(r) /\ active = None)
  <2>1. active' = active /\ held' = held /\ Go(r, "opening") /\ BuildStart(r, asked[r])
        /\ pc[r] \in {"lock", "closing"}
    BY <1>5 DEF DatabaseOpening, ReopenClosed, Reopen, object
  <2>2. HoldsOn(r)
    BY <1>1, <2>1 DEF Go, BuildStart, HoldsOn, Holding
  <2>3. QED BY <1>2, <2>1, <2>2 DEF ActiveMoves
<1>6. CASE Reopen(r) /\ active # None
  <2>1. active' = None /\ CloseStart(active) /\ active \in Requests
    BY <1>0, <1>6 DEF Reopen, Shared
  <2>2. status'[active] # "open"
    BY <1>1, <2>1 DEF CloseStart
  <2>3. Takes(r)
    BY <1>1, <1>6 DEF Reopen, Go, Takes
  <2>4. QED BY <1>2, <2>1, <2>2, <2>3 DEF ActiveMoves
<1>7. CASE Installed(r)
  BY <1>2, <1>7 DEF ActiveMoves
<1>8. CASE Put(r) \/ FlushCall(r) \/ \E c \in Clients : BenchPut(r, c)
  <2>1. active' = active /\ held' = held /\ pc[r] = "call" /\ (Go(r, "sent") \/ pc' = pc)
    BY <1>8 DEF Put, FlushCall, BenchPut, object
  <2>2. HoldsOn(r)
    BY <1>1, <2>1 DEF Go, HoldsOn, Holding
  <2>3. QED BY <1>2, <2>1, <2>2 DEF ActiveMoves
<1>9. QED BY <1>3, <1>4, <1>5, <1>6, <1>7, <1>8 DEF Handle

\* So does every step of the process.
LEMMA ServiceReads ==
    ASSUME ServiceInv, [ServiceNext]_serviceVars
    PROVE  ActiveMoves /\ \A q \in Requests : HoldsOn(q) \/ Takes(q) \/ Installed(q)
<1> DEFINE Goal == ActiveMoves /\ \A q \in Requests : HoldsOn(q) \/ Takes(q) \/ Installed(q)
<1>0. /\ Keeps
      /\ pc \in [Requests -> {"new"} \cup Busy \cup Ended]
      /\ held \in [Requests -> Requests \cup {None}]
      /\ status \in [Requests -> Status] /\ active \in Requests \cup {None}
  BY ServiceMoves DEF ServiceInv, ServiceTypeOK, EngineTypeOK
\* A step that closes and opens nothing.
<1>1. ASSUME active' = active \/ (active' = None /\ \A q \in Requests : pc'[q] \notin Busy),
             held' = held,
             \A q \in Requests : \/ pc'[q] = pc[q]
                                 \/ pc'[q] \in Ended
                                 \/ pc[q] \in Holding /\ pc'[q] = "removing"
                                 \/ pc[q] = "new" /\ pc'[q] = "lock"
      PROVE  Goal
  <2>1. \A q \in Requests : HoldsOn(q)
    BY <1>1 DEF HoldsOn, Holding, Ended, Answered
  <2>2. QED BY <1>1, <2>1 DEF ActiveMoves
<1>2. ASSUME NEW r \in Requests, NEW k \in ServiceKinds, NEW n \in Names, Arrive(r, k, n)
      PROVE  Goal
  BY <1>0, <1>1, <1>2 DEF Arrive, Start, Go, object
<1>3. ASSUME NEW r \in Requests, ClearCache(r)
      PROVE  Goal
  <2>1. \A q \in Requests : q # r => HoldsOn(q)
    BY <1>0, <1>3 DEF ClearCache, Go, HoldsOn
  <2>2. CASE active # None
    <3>1. Takes(r) /\ active' = None /\ CloseStart(active) /\ active \in Requests
      BY <1>0, <1>3, <2>2 DEF ClearCache, Go, Takes
    <3>2. status'[active] # "open"
      BY <1>0, <3>1 DEF CloseStart
    <3>3. QED BY <2>1, <3>1, <3>2 DEF ActiveMoves
  <2>3. CASE active = None
    <3>1. HoldsOn(r) /\ active' = active
      BY <1>0, <1>3, <2>3 DEF ClearCache, Go, HoldsOn, Holding
    <3>2. QED BY <2>1, <3>1 DEF ActiveMoves
  <2>4. QED BY <2>2, <2>3
<1>4. ASSUME NEW r \in Requests, ClearClosed(r)
      PROVE  Goal
  BY <1>0, <1>1, <1>4 DEF ClearClosed, Go, object, Holding
<1>5. ASSUME NEW r \in Requests, Removed(r)
      PROVE  Goal
  <2>1. \A q \in Requests : q # r => HoldsOn(q)
    BY <1>0, <1>5 DEF Removed, Go, HoldsOn
  <2>2. HoldsOn(r)
    BY <1>0, <1>5 DEF Removed, Go, HoldsOn, Holding, BuildStart
  <2>3. QED BY <1>5, <2>1, <2>2 DEF Removed, ActiveMoves
<1>6. ASSUME NEW r \in Requests, Dropped(r)
      PROVE  Goal
  BY <1>0, <1>1, <1>6 DEF Dropped, Go, Ended
<1>7. CASE UNCHANGED <<active, held, pc>>
  BY <1>1, <1>7
<1>8. CASE CloseActive
  <2>1. active' = None /\ held' = held /\ pc' = pc /\ \A q \in Requests : pc[q] \notin Busy
    BY <1>8 DEF CloseActive, Drained, calls
  <2>2. QED BY <1>1, <2>1
<1>9. CASE Replaced
  <2>1. \A q \in Requests : pc'[q] \notin Busy /\ (pc'[q] = pc[q] \/ pc'[q] \in Ended)
    BY <1>9 DEF Replaced, Busy, Waiting, Ended, Answered
  <2>2. QED BY <1>1, <1>9, <2>1 DEF Replaced
<1>10. ASSUME NEW r \in Requests, Handle(r)
       PROVE  Goal
  BY <1>0, <1>10, HandleReads
<1>11. QED
  BY <1>2, <1>3, <1>4, <1>5, <1>6, <1>7, <1>8, <1>9, <1>10, SharedHandlers
     DEF ServiceNext, Handler, SlateDbTask, ShutdownSignal, Exit, AllEnded, serviceVars,
         vars, object, calls

\* A Db that was installed does not move past one that stands before it: its
\* number is taken.
LEMMA TopStays ==
    ASSUME EngineRuns, Keeps, NEW e \in Requests, Top(e), Built(e),
           \A d \in Requests : Served(d) => Built(d),
           \A d \in Requests : Served(d)' => Served(d) \/ d = e
    PROVE  Top(e)'
<1> SUFFICES ASSUME NEW d \in Requests, Served(d)', d # e, name'[d] = name'[e]
             PROVE  next'[d] < next'[e]
  BY DEF Top
<1>0. EngineTypeOK /\ EngineInv /\ Built(d) /\ Served(d)
  BY DEF EngineRuns
<1>1. status[d] # "unused" /\ status[d] # "building" /\ status[e] # "unused"
  BY <1>0 DEF EngineInv, UnbuiltIsAbsent
<1>2. name'[d] = name[d] /\ name'[e] = name[e] /\ name[d] \in Names
  BY <1>0, <1>1 DEF Keeps, EngineInv
<1>3. next[d] < next[e]
  BY <1>0, <1>2 DEF Top
<1>4. /\ next[d] \in Nat /\ next[e] \in Nat /\ next'[e] \in Nat
      /\ next[e] <= next'[e]
  BY NextMoves
<1>5. CASE next'[d] = next[d]
  BY <1>3, <1>4, <1>5
<1>6. CASE next'[d] # next[d]
  <2>1. PICK x \in Requests : EngineAny(x)
    BY <1>6 DEF EngineRuns, EngineMoves, engine
  <2>2. Moves(x) /\ (Quiet \/ Fences(x) \/ Extends(x))
    BY <1>0, <2>1, EngineShape
  <2>3. x = d /\ Extends(d)
    BY <1>1, <1>6, <2>2 DEF Moves, Quiet, Fences
  <2>4. next[d] = Len(wal[name[d]]) + 1
    BY <1>0, <1>2, <2>3, NextIsFree DEF Extends, EngineInv
  <2>5. next[e] - 1 \in DOMAIN wal[name[d]]
    BY <1>0, <1>2 DEF EngineInv, BuiltIsFenced
  <2>6. DOMAIN wal[name[d]] = 1..Len(wal[name[d]]) /\ Len(wal[name[d]]) \in Nat
    BY <1>0, <1>2, LenProperties DEF EngineTypeOK
  <2>7. QED BY <1>3, <1>4, <2>4, <2>5, <2>6
<1>7. QED BY <1>5, <1>6

\* A Db gets its first place in the log when its build succeeds, past all others.
LEMMA FirstPlace ==
    ASSUME EngineRuns, NEW r \in Requests, ~Built(r), Built(r)'
    PROVE  BuildOk(r)
<1>0. EngineTypeOK /\ EngineInv /\ next[r] # next'[r]
  BY DEF EngineRuns, Built
<1>1. PICK x \in Requests : EngineAny(x)
  BY <1>0 DEF EngineRuns, EngineMoves, engine
<1>2. Moves(x) /\ (Quiet \/ Fences(x) \/ Extends(x))
  BY <1>0, <1>1, EngineShape
<1>3. x = r /\ (Fences(r) \/ Extends(r))
  BY <1>0, <1>2 DEF Moves, Quiet
<1>4. Fences(r)
  BY <1>0, <1>3 DEF Extends, EngineInv
<1>5. status'[r] = "open" /\ status[r] = "building"
  BY <1>0, <1>4 DEF Fences
<1>6. QED BY <1>5, OpenComes

\* A handler that installs a Db holds the mutex: it alone opens one.
LEMMA InstallsAlone ==
    ASSUME ServiceInv, NEW r \in Requests, Installed(r)
    PROVE  /\ active = None /\ \A q \in Requests : pc[q] = "opening" => q = r
           /\ pc[r] = "opening" /\ pc'[r] \in {"call", "ok"}
           /\ \A q \in Requests : q # r => pc'[q] = pc[q]
           /\ active' = r /\ held'[r] = r /\ Built(r) /\ UNCHANGED engine
<1>1. pc[r] = "opening" /\ pc[r] \in Busy
  BY DEF Installed, Busy, Waiting
<1>2. MutexInv
  BY <1>1 DEF ServiceInv, ProcessInv
<1>3. lock = r /\ active = None /\ \A q \in Requests : pc[q] = "opening" => q = r
  BY <1>1, <1>2, NoneAssumption DEF MutexInv, Holding
<1>4. pc \in [Requests -> {"new"} \cup Busy \cup Ended]
      /\ held \in [Requests -> Requests \cup {None}]
  BY DEF ServiceInv, ServiceTypeOK
<1>5. QED BY <1>1, <1>3, <1>4 DEF Installed, Go

\* A Db that was installed stays so, and no other is but by its own request.
LEMMA ServedMoves ==
    ASSUME ServiceInv, ServedInv, [ServiceNext]_serviceVars, NEW d \in Requests
    PROVE  /\ Served(d) => Served(d)' /\ Built(d)
           /\ Built(d) => Built(d)'
           /\ Served(d)' => Served(d) \/ Installed(d)
<1>1. HeldInv(d) /\ (active # None => Served(active)) /\ EngineRuns
  BY ServiceMoves DEF ServedInv, TopInv
<1>2. HoldsOn(d) \/ Takes(d) \/ Installed(d)
  BY ServiceReads
<1>3. Served(d) => Served(d)' /\ Built(d)
  BY <1>1, <1>2, NoneAssumption, InstallsAlone DEF Served, HeldInv, HoldsOn, Takes
<1>4. Served(d)' => Served(d) \/ Installed(d)
  BY <1>1, <1>2 DEF Served, HoldsOn, Takes
<1>5. Built(d) => Built(d)'
  BY <1>1, NextMoves DEF Built
<1>6. QED BY <1>3, <1>4, <1>5

\* Requests hold Dbs that were installed.
LEMMA HeldInductive ==
    ASSUME ServiceInv, ServedInv, [ServiceNext]_serviceVars, NEW q \in Requests
    PROVE  HeldInv(q)'
<1>0. /\ HeldInv(q) /\ (active # None => Served(active) /\ active \in Requests)
      /\ held[q] \in Requests \cup {None}
  BY DEF ServedInv, TopInv, ServiceInv, ServiceTypeOK
<1>1. CASE HoldsOn(q)
  <2>1. ASSUME NEW d \in Requests, d = held[q] PROVE Served(d)' /\ Built(d)'
    <3>1. Served(d) /\ Built(d)
      BY <1>0, <2>1, NoneAssumption DEF HeldInv, Served, Built
    <3>2. QED BY <3>1, ServedMoves
  <2>2. held'[q] = held[q]
    BY <1>1 DEF HoldsOn
  <2>3. held'[q] # None => (Served(held[q]) /\ Built(held[q]))'
    BY <1>0, <2>1, <2>2 DEF Served, Built
  <2>4. QED BY <1>0, <1>1, <2>2, <2>3, NoneAssumption DEF HoldsOn, HeldInv
<1>2. CASE Takes(q)
  <2>1. PICK d \in Requests : d = active
    BY <1>0, <1>2 DEF Takes
  <2>2. Served(d) /\ d # None
    BY <1>0, <1>2, <2>1 DEF Takes, Served
  <2>3. Served(d)' /\ Built(d)'
    BY <2>2, ServedMoves
  <2>4. d # q
    BY <1>0, <1>2, <2>2 DEF Takes, HeldInv, Served
  <2>5. held'[q] = d /\ pc'[q] \in {"call", "closing"}
    BY <1>2, <2>1 DEF Takes
  <2>6. (Served(held[q]) /\ Built(held[q]))'
    BY <2>3, <2>5 DEF Served, Built
  <2>7. QED BY <2>4, <2>5, <2>6 DEF HeldInv
<1>3. CASE Installed(q)
  <2>1. held'[q] = q /\ pc'[q] \in {"call", "ok"} /\ Built(q)'
    BY <1>3, InstallsAlone, ServedMoves
  <2>2. QED BY <2>1 DEF HeldInv, Served, Holding, Built
<1>4. QED BY <1>1, <1>2, <1>3, ServiceReads

\* The Db that is installed, or about to be, stands past all that were.
LEMMA TopInductive ==
    ASSUME ServiceInv, ServedInv, [ServiceNext]_serviceVars
    PROVE  TopInv'
<1>0. /\ EngineRuns /\ Keeps /\ TopInv /\ ActiveMoves
      /\ \A d \in Requests : Served(d) => Built(d)
      /\ active \in Requests \cup {None}
  BY ServiceMoves, ServedMoves, ServiceReads DEF ServedInv, ServiceInv, ServiceTypeOK
<1>1. ASSUME NEW r \in Requests, Installed(r)
      PROVE  TopInv'
  <2>1. /\ Top(r) /\ Built(r) /\ active' = r /\ Served(r)'
        /\ \A q \in Requests : pc'[q] # "opening"
    BY <1>0, <1>1, InstallsAlone DEF TopInv, Served
  <2>2. \A d \in Requests : Installed(d) => d = r
    BY <1>1, InstallsAlone
  <2>3. \A d \in Requests : Served(d)' => Served(d) \/ d = r
    BY <2>2, ServedMoves
  <2>4. Top(r)'
    BY <1>0, <2>1, <2>3, TopStays
  <2>5. QED BY <2>1, <2>4 DEF TopInv, Top, Served
<1>2. CASE \A r \in Requests : ~Installed(r)
  <2>1. \A d \in Requests : Served(d)' => Served(d)
    BY <1>2, ServedMoves
  <2>2. active' # None => (Served(active) /\ Top(active))'
    <3>1. active' \in {active, None}
      BY <1>0, <1>2 DEF ActiveMoves
    <3>2. ASSUME NEW e \in Requests, active = e, active' = e
          PROVE  Served(e)' /\ Top(e)'
      <4>1. e # None
        BY NoneAssumption
      <4>2. Served(e) /\ Top(e)
        BY <1>0, <3>2, <4>1 DEF TopInv, Served, Top
      <4>3. QED BY <1>0, <2>1, <4>2, TopStays, ServedMoves
    <3>3. QED BY <1>0, <3>1, <3>2 DEF Served, Top
  <2>3. ASSUME NEW q \in Requests, pc'[q] = "opening", Built(q)'
        PROVE  Top(q)'
    <3>1. HoldsOn(q)
      BY <1>2, <2>3, ServiceReads DEF Takes
    <3>2. pc[q] = "opening"
      <4>1. CASE status[q] = "unused" /\ UNCHANGED next
        BY <1>0, <2>3, <4>1 DEF EngineRuns, EngineInv, UnbuiltIsAbsent, Built
      <4>2. QED BY <2>3, <3>1, <4>1 DEF HoldsOn
    <3>3. CASE Built(q)
      BY <1>0, <2>1, <3>2, <3>3, TopStays DEF TopInv
    <3>4. CASE ~Built(q)
      <4>1. BuildOk(q)
        BY <1>0, <2>3, <3>4, FirstPlace
      <4>2. \A d \in Requests : name[d] = name[q] => next[d] < next'[q]
        BY <1>0, <4>1, BuiltIsNewest DEF EngineRuns
      <4>3. name' = name /\ \A d \in Requests : d # q => next'[d] = next[d]
        BY <1>0, <4>1 DEF BuildOk, EngineRuns, EngineTypeOK
      <4>4. QED BY <4>2, <4>3 DEF Top
    <3>5. QED BY <3>3, <3>4
  <2>4. QED BY <2>2, <2>3 DEF TopInv, Built, Top, Served
<1>3. QED BY <1>1, <1>2

\* Of the Dbs that requests hold, only the one that is installed is open.
LEMMA OpenIsActive ==
    ASSUME ServiceInv, ServedInv, [ServiceNext]_serviceVars, NEW q \in Requests,
           pc'[q] \in {"call", "sent"}, status'[held'[q]] = "open"
    PROVE  held'[q] = active'
<1>0. /\ EngineRuns /\ ActiveMoves /\ AnswerInv(q) /\ HeldInv(q)
      /\ held[q] \in Requests \cup {None} /\ CallInv(q)
  BY ServiceMoves, ServiceReads DEF ServedInv, ServiceInv, ServiceTypeOK, ObjectInv
<1>1. CASE HoldsOn(q)
  <2>1. PICK h \in Requests : h = held[q]
    BY <1>0, <1>1 DEF HoldsOn, CallInv
  <2>2. status[h] = "open"
    <3>1. Built(h)
      BY <1>0, <2>1, NoneAssumption DEF HeldInv
    <3>2. ~BuildOk(h)
      BY <1>0, <3>1 DEF BuildOk, EngineRuns, EngineInv, UnbuiltIsAbsent
    <3>3. QED BY <1>0, <1>1, <2>1, <3>2, OpenComes DEF HoldsOn
  <2>3. active = h
    BY <1>0, <1>1, <2>1, <2>2 DEF HoldsOn, AnswerInv
  <2>4. \A r \in Requests : ~Installed(r)
    BY <2>1, <2>3, NoneAssumption, InstallsAlone
  <2>5. active' = active
    BY <1>0, <1>1, <2>1, <2>3, <2>4, NoneAssumption
       DEF ActiveMoves, HoldsOn, Busy, Waiting
  <2>6. QED BY <1>1, <2>1, <2>3, <2>5 DEF HoldsOn
<1>2. CASE Takes(q)
  BY <1>2 DEF Takes
<1>3. CASE Installed(q)
  BY <1>3, InstallsAlone
<1>4. QED BY <1>1, <1>2, <1>3, ServiceReads

\* The Db that answered a put keeps knowing its write.
LEMMA AnswerKept ==
    ASSUME ServiceInv, ServedInv, [ServiceNext]_serviceVars, NEW q \in Requests,
           Ok(q, "put")'
    PROVE  Remembered(q)'
<1>0. /\ EngineRuns /\ Keeps /\ AnswerInv(q) /\ CallInv(q) /\ RequestKept(q)
  BY ServiceMoves, RequestsKept DEF ServedInv, ServiceInv, ObjectInv
<1>1. (Ok(q, "put") \/ DurableOk(q)) /\ asked'[q] = asked[q]
  BY <1>0 DEF RequestKept
<1>2. /\ held[q] \in Requests /\ name[held[q]] = asked[q]
      /\ <<q, OneClient>> \in Known(held[q]) /\ pc[q] \in {"ok", "sent"}
  <2>1. CASE Ok(q, "put")
    BY <1>0, <2>1 DEF AnswerInv, Remembered, Ok
  <2>2. CASE DurableOk(q)
    <3>1. pc[q] = "sent" /\ kind[q] = "put" /\ want[q] \subseteq Known(held[q])
      BY <2>2 DEF DurableOk, AwaitDurable, Ok
    <3>2. QED BY <1>0, <3>1 DEF CallInv
  <2>3. QED BY <1>1, <2>1, <2>2
<1>3. held'[q] = held[q]
  BY <1>2, ServiceReads DEF HoldsOn, Takes, Installed
<1>4. PICK h \in Requests : h = held[q]
  BY <1>2
<1>5. status[h] # "unused"
  <2>1. HeldInv(q) /\ h # None
    BY <1>4, NoneAssumption DEF ServedInv
  <2>2. Built(h)
    BY <1>4, <2>1 DEF HeldInv
  <2>3. QED BY <1>0, <2>2 DEF EngineRuns, EngineInv, UnbuiltIsAbsent
<1>6. name'[h] = name[h] /\ Known(h) \subseteq Known(h)'
  BY <1>0, <1>5, KnownGrows DEF Keeps
<1>7. <<q, OneClient>> \in Known(h)'
  <2>1. <<q, OneClient>> \in Known(h)
    BY <1>2, <1>4 DEF Known
  <2>2. QED BY <1>6, <2>1
<1>8. held'[q] = h
  BY <1>3, <1>4
<1>9. QED BY <1>1, <1>2, <1>4, <1>6, <1>7, <1>8 DEF Known, Remembered

\* Every step keeps what reads rely on.
LEMMA ServedInductive ==
    ServiceInv /\ ServedInv /\ [ServiceNext]_serviceVars => ServedInv'
<1> SUFFICES ASSUME ServiceInv, ServedInv, [ServiceNext]_serviceVars PROVE ServedInv'
  OBVIOUS
<1>1. ASSUME NEW q \in Requests PROVE HeldInv(q)' /\ AnswerInv(q)'
  <2>1. pc'[q] \in {"call", "sent"} /\ status'[held'[q]] = "open" => held'[q] = active'
    BY OpenIsActive
  <2>2. Ok(q, "put")' => Remembered(q)'
    BY AnswerKept
  <2>3. AnswerInv(q)'
    BY <2>1, <2>2 DEF AnswerInv
  <2>4. QED BY <2>3, HeldInductive
<1>2. QED BY <1>1, TopInductive DEF ServedInv

----------------------------------------------------------------------------
\* The initial states satisfy the inductive invariant.
LEMMA ServiceInitInv == ServiceInit => ServiceInv
<1> SUFFICES ASSUME ServiceInit PROVE ServiceInv
  OBVIOUS
<1>1. IInv
  BY InitInv DEF ServiceInit
<1>2. EngineTypeOK /\ EngineInv /\ ObjectInv
  BY <1>1 DEF IInv, TypeOK
<1> USE DEF ServiceInit, Init, EngineInit
<1>3. ServiceTypeOK
  BY <1>2 DEF ServiceTypeOK
<1>4. MutexInv
  BY DEF MutexInv, Holding, Live
<1>5. ProcessInv
  BY <1>4 DEF ProcessInv, Serving
<1>6. /\ \A d \in Requests : status[d] = "closed" => buffer[d] = {}
      /\ \A q \in Requests : BatchInv(q)
  BY DEF BatchInv
<1>7. QED BY <1>2, <1>3, <1>5, <1>6 DEF ServiceInv

\* Every step keeps the inductive invariant.
LEMMA ServiceNextInv == ServiceInv /\ [ServiceNext]_serviceVars => ServiceInv'
<1> SUFFICES ASSUME ServiceInv, [ServiceNext]_serviceVars PROVE ServiceInv'
  OBVIOUS
<1>1. EngineRuns /\ Keeps /\ EngineInv'
  BY ServiceMoves
<1>2. /\ ServiceTypeOK'
      /\ active' # None => active' \in Requests /\ status'[active'] # "unused"
      /\ \A q \in Requests : RequestKept(q)
  BY RequestsKept
<1>3. AckedDurable'
  <2>1. \A q \in Requests : Ok(q, "put")' =>
          (Ok(q, "put") /\ asked'[q] = asked[q]) \/ (DurableOk(q) /\ asked'[q] = asked[q])
    BY <1>2 DEF RequestKept
  <2>2. QED BY <1>1, <2>1, AckedKeeps, ServiceShares
<1>4. ObjectInv'
  BY <1>2, <1>3 DEF ObjectInv, RequestKept
<1>5. \A d \in Requests : status'[d] = "closed" => buffer'[d] = {}
  BY <1>1, ClosedIsEmpty DEF ServiceInv
<1>6. ProcessInv' /\ \A q \in Requests : BatchInv(q)'
  BY ProcessInductive, BatchKept
<1>7. QED BY <1>1, <1>2, <1>4, <1>5, <1>6 DEF ServiceInv

\* The inductive invariant holds in every reachable state.
THEOREM ServiceInvariance == ServiceSpec => []ServiceInv
BY ServiceInitInv, ServiceNextInv, PTL DEF ServiceSpec

\* Every variable of the process and of the engine keeps its type.
THEOREM ServiceTypeCorrect == ServiceSpec => []ServiceTypeOK
<1>1. ServiceInv => ServiceTypeOK
  BY DEF ServiceInv
<1>2. QED BY <1>1, ServiceInvariance, PTL

\* A put or delete that the container answered with ok is in R2 in every later
\* state, whichever handlers are dropped and processes stopped or replaced.
THEOREM ServiceAcksSurvive == ServiceSpec => []AckedDurable
<1>1. ServiceInv => AckedDurable
  BY DEF ServiceInv, ObjectInv
<1>2. QED BY <1>1, ServiceInvariance, PTL

\* The Dbs that dropped handlers and lost processes leave running never
\* interleave their objects with those of the Db that serves.
THEOREM ServiceSingleWriter == ServiceSpec => []WritersContiguous
<1>1. ServiceInv => WritersContiguous
  BY DEF ServiceInv, EngineInv
<1>2. QED BY <1>1, ServiceInvariance, PTL

\* A read about to be served by an open Db returns every put and delete that the
\* container answered before, whichever Db answered it: the Dbs that dropped
\* handlers left open were never installed, and a Db that was cannot get ahead
\* of the one that is (main.rs, database() and reopen()).
THEOREM ServiceReadsAreFresh == ServiceSpec => []ReadsSeeAcks
<1>1. ServiceInit => ServedInv
  BY NoneAssumption
     DEF ServiceInit, Init, EngineInit, ServedInv, TopInv, HeldInv, AnswerInv, Holding, Ok
<1>2. ASSUME ServiceInv, ServedInv, NEW r \in Requests,
             pc[r] = "call", status[held[r]] = "open",
             NEW q \in Requests, Ok(q, "put"), asked[q] = asked[r]
      PROVE  <<q, OneClient>> \in Known(held[r])
  <2>1. /\ held[r] = active /\ held[r] \in Requests /\ name[held[r]] = asked[r]
        /\ asked[r] \in Names
    BY <1>2 DEF ServiceInv, ObjectInv, CallInv, ServedInv, AnswerInv
  <2>2. PICK d \in Requests : d = held[r]
    BY <2>1
  <2>3. Top(d) /\ name[d] = asked[r] /\ name[d] \in Names
    BY <1>2, <2>1, <2>2, NoneAssumption DEF ServedInv, TopInv, Top
  <2>4. /\ held[q] \in Requests /\ name[held[q]] = asked[q]
        /\ <<q, OneClient>> \in Known(held[q])
    BY <1>2 DEF ServedInv, AnswerInv, Remembered
  <2>5. PICK e \in Requests : e = held[q]
    BY <2>4
  <2>6. Served(e)
    BY <1>2, <2>5, NoneAssumption DEF ServedInv, HeldInv, Served
  <2>7. CASE e = d
    BY <2>2, <2>4, <2>5, <2>7
  <2>8. CASE e # d
    <3>1. EngineTypeOK /\ next[d] \in Nat /\ next[e] \in Nat
      BY <1>2 DEF ServiceInv, ServiceTypeOK, EngineTypeOK
    <3>2. name[e] = name[d] /\ next[e] < next[d]
      BY <1>2, <2>3, <2>4, <2>5, <2>6, <2>8 DEF Top
    <3>3. next[e] <= next[d]
      BY <3>1, <3>2
    <3>4. Known(e) \subseteq Known(d)
      BY <2>3, <3>1, <3>2, <3>3, KnownInOrder
    <3>5. QED BY <2>2, <2>4, <2>5, <3>4
  <2>9. QED BY <2>7, <2>8
<1>3. ServiceInv /\ ServedInv => ReadsSeeAcks
  BY <1>2 DEF ReadsSeeAcks, AckedPuts, View
<1>4. QED
  BY <1>1, <1>3, ServiceInitInv, ServiceNextInv, ServedInductive, PTL DEF ServiceSpec

\* A scan of the container, whose scan() repeats the route of lib.rs, lists every
\* answered put under its prefix, or says truncated before it.
THEOREM ServiceScansAreFresh == ServiceSpec => []ScanSeesAcks
<1>1. ReadsSeeAcks => ScanSeesAcks
  BY ScansFollowReads
<1>2. QED BY <1>1, ServiceReadsAreFresh, PTL

\* The process answers for at most one running Db, and that Db is installed,
\* awaited by the handler that holds the mutex or by close_active, or forgotten.
THEOREM OneServiceDb == ServiceSpec => []ServiceDbOwned
<1>1. ServiceInv => ServiceDbOwned
  <2> SUFFICES ASSUME ServiceInv PROVE ServiceDbOwned
    OBVIOUS
  <2>1. CASE phase \in Serving
    <3>1. MutexInv
      BY <2>1 DEF ServiceInv, ProcessInv
    <3>2. \A d, e \in Requests : Owned(d) /\ Owned(e) => d = e
      BY <3>1, NoneAssumption DEF MutexInv, Owned
    <3>3. QED BY <3>1, <3>2 DEF MutexInv, ServiceDbOwned, Owned
  <2>2. CASE phase \notin Serving
    <3>1. \A d \in Requests : status[d] \in Live /\ d \notin orphans => closer = d
      BY <2>2 DEF ServiceInv, ProcessInv
    <3>2. QED BY <3>1 DEF ServiceDbOwned
  <2>3. QED BY <2>1, <2>2
<1>2. QED BY <1>1, ServiceInvariance, PTL

\* clear_cache, main.rs:376, removes the directory under no Db that the process
\* answers for: the mutex it holds leaves none running.
THEOREM CacheRemovedAlone == ServiceSpec => []RemovalAlone
<1>1. ServiceInv => RemovalAlone
  <2> SUFFICES ASSUME ServiceInv, NEW r \in Requests, pc[r] = "removing",
                      NEW d \in Requests \ orphans, status[d] \in Live
               PROVE  FALSE
    <3>1. ServiceInv => removal \subseteq Requests
      BY DEF ServiceInv, ServiceTypeOK
    <3>2. QED BY <3>1 DEF RemovalAlone
  <2>1. MutexInv
    BY DEF ServiceInv, ProcessInv, Busy
  <2>2. lock = r /\ active = None /\ Owned(d)
    BY <2>1, NoneAssumption DEF MutexInv, Holding
  <2>3. QED BY <2>2, NoneAssumption DEF Owned
<1>2. QED BY <1>1, ServiceInvariance, PTL

\* A process that ended on SIGTERM leaves nothing buffered: close_active awaits
\* the close of the one Db that still runs (main.rs:584).
THEOREM ShutdownSaves == ServiceSpec => []ShutdownDrains
<1>1. ServiceInv => ShutdownDrains
  <2> SUFFICES ASSUME ServiceInv, NEW b \in Requests, phase = "exited", Ok(b, "bench"),
                      status[held[b]] # "failed", held[b] \notin orphans, want[b] # {}
               PROVE  want[b] \subseteq Durable(asked[b])
    BY DEF ShutdownDrains
  <2>1. Placed(b)
    BY DEF ServiceInv, BatchInv, Ok
  <2>2. PICK d \in Requests : d = held[b]
    BY <2>1 DEF Placed
  <2>3. status[d] = "closed"
    <3>1. status[d] \notin Live
      BY <2>2 DEF ServiceInv, ProcessInv, Serving
    <3>2. status[d] \in Status \ {"unused", "failed"}
      BY <2>1, <2>2 DEF Placed, ServiceInv, ServiceTypeOK, EngineTypeOK
    <3>3. QED BY <3>1, <3>2 DEF Status, Live
  <2>4. buffer[d] = {}
    BY <2>3 DEF ServiceInv
  <2>5. QED BY <2>1, <2>2, <2>4 DEF Placed
<1>2. QED BY <1>1, ServiceInvariance, PTL

----------------------------------------------------------------------------
(***************************************************************************)
(* The log.  LogInv speaks of no mutex and no installed Db, only of what a *)
(* request keeps: so dropped handlers and forgotten Dbs do not disturb it. *)
(***************************************************************************)

\* The container's own steps hand over no write and begin no call.
LEMMA OwnCallSteps ==
    ASSUME ServiceInv, [ServiceNext]_serviceVars,
           \/ \E r \in Requests : ClearCache(r) \/ ClearClosed(r) \/ Removed(r) \/ Dropped(r)
           \/ \E d \in Requests : SlateDbTask(d)
           \/ ShutdownSignal \/ CloseActive \/ Exit \/ Replaced
           \/ AllEnded \/ UNCHANGED serviceVars
    PROVE  (\A q \in Requests : CallStep(q)) /\ BufferStep
<1> DEFINE Goal == (\A q \in Requests : CallStep(q)) /\ BufferStep
           Elsewhere == {"opening", "closing", "removing", "error", "dropped", "lost"}
<1>0. /\ pc \in [Requests -> {"new"} \cup Busy \cup Ended]
      /\ buffer \in [Requests -> SUBSET Writes]
      /\ \A q \in Requests : WantKept(q)
  BY RequestsKept DEF ServiceInv, ServiceTypeOK, EngineTypeOK, RequestKept
<1>1. ASSUME UNCHANGED <<kind, asked>>,
             buffer' = buffer \/ \E d \in Requests : buffer' = [buffer EXCEPT ![d] = {}],
             \A q \in Requests : pc'[q] = pc[q] \/ (pc[q] # "new" /\ pc'[q] \in Elsewhere)
      PROVE  Goal
  <2>1. BufferStep
    BY <1>0, <1>1 DEF BufferStep
  <2>2. \A q \in Requests : CallStep(q)
    BY <1>0, <1>1 DEF CallStep
  <2>3. QED BY <2>1, <2>2
<1>2. ASSUME NEW r \in Requests, ClearCache(r) PROVE Goal
  <2>1. buffer' = buffer /\ UNCHANGED <<kind, asked>>
    BY <1>2 DEF ClearCache, CloseStart, engine
  <2>2. \A q \in Requests : pc'[q] = pc[q] \/ (pc[q] # "new" /\ pc'[q] \in Elsewhere)
    BY <1>0, <1>2 DEF ClearCache, Go
  <2>3. QED BY <1>1, <2>1, <2>2
<1>3. ASSUME NEW r \in Requests, ClearClosed(r) PROVE Goal
  <2>1. \A q \in Requests : pc'[q] = pc[q] \/ (pc[q] # "new" /\ pc'[q] \in Elsewhere)
    BY <1>0, <1>3 DEF ClearClosed, Go
  <2>2. QED BY <1>1, <1>3, <2>1 DEF ClearClosed, engine
<1>4. ASSUME NEW r \in Requests, Removed(r) PROVE Goal
  <2>1. buffer' = buffer /\ UNCHANGED <<kind, asked>>
    BY <1>4 DEF Removed, BuildStart, engine
  <2>2. \A q \in Requests : pc'[q] = pc[q] \/ (pc[q] # "new" /\ pc'[q] \in Elsewhere)
    BY <1>0, <1>4 DEF Removed, Go
  <2>3. QED BY <1>1, <2>1, <2>2
<1>5. ASSUME NEW r \in Requests, Dropped(r) PROVE Goal
  <2>1. \A q \in Requests : pc'[q] = pc[q] \/ (pc[q] # "new" /\ pc'[q] \in Elsewhere)
    BY <1>0, <1>5 DEF Dropped, Go, Busy, Waiting
  <2>2. QED BY <1>1, <1>5, <2>1 DEF Dropped, engine
<1>6. ASSUME NEW d \in Requests, SlateDbTask(d) PROVE Goal
  <2>1. buffer' = buffer \/ buffer' = [buffer EXCEPT ![d] = {}]
    BY <1>6 DEF SlateDbTask, EngineStep, Progress, BuildOk, BuildErr, Flush, Fenced,
                Breaks, CloseOk
  <2>2. QED BY <1>1, <1>6, <2>1 DEF SlateDbTask, calls
<1>7. CASE CloseActive
  BY <1>1, <1>7 DEF CloseActive, CloseStart, engine, calls
<1>8. CASE ShutdownSignal \/ Exit \/ AllEnded \/ UNCHANGED serviceVars
  BY <1>1, <1>8 DEF ShutdownSignal, Exit, AllEnded, serviceVars, vars, engine, calls
<1>9. CASE Replaced
  <2>1. \A q \in Requests : pc'[q] = pc[q] \/ (pc[q] # "new" /\ pc'[q] \in Elsewhere)
    BY <1>0, <1>9 DEF Replaced, Busy, Waiting
  <2>2. QED BY <1>1, <1>9, <2>1 DEF Replaced, engine
<1>10. QED BY <1>2, <1>3, <1>4, <1>5, <1>6, <1>7, <1>8, <1>9

\* Whatever step is taken, requests and buffers move as in the object.
LEMMA ServiceCallSteps ==
    ASSUME ServiceInv, [ServiceNext]_serviceVars
    PROVE  (\A q \in Requests : CallStep(q)) /\ BufferStep
<1>1. CASE \E r \in Requests : Handler(r) /\ ~ClearCache(r) /\ ~ClearClosed(r) /\ ~Removed(r)
  <2>1. PICK r \in Requests : Handle(r)
    BY <1>1, SharedHandlers DEF Handler
  <2>2. QED BY <2>1, HandleCalls, ServiceMoves, ServiceShares
<1>2. ASSUME NEW r \in Requests, NEW k \in ServiceKinds, NEW n \in Names, Arrive(r, k, n)
      PROVE  (\A q \in Requests : CallStep(q)) /\ BufferStep
  <2>0. ServiceTypeOK /\ \A q \in Requests : WantKept(q)
    BY RequestsKept DEF ServiceInv, RequestKept
  <2>1. BufferStep
    BY <1>2 DEF Arrive, Start, engine, BufferStep
  <2>2. ASSUME NEW q \in Requests PROVE CallStep(q)
    <3>1. CASE q = r
      BY <1>2, <2>0, <3>1 DEF Arrive, Start, Go, CallStep, ServiceTypeOK
    <3>2. CASE q # r
      <4>1. pc'[q] = pc[q] /\ kind'[q] = kind[q] /\ asked'[q] = asked[q]
        BY <1>2, <2>0, <3>2 DEF Arrive, Start, Go, ServiceTypeOK
      <4>2. QED BY <2>0, <4>1 DEF CallStep
    <3>3. QED BY <3>1, <3>2
  <2>3. QED BY <2>1, <2>2
<1>3. CASE \/ \E r \in Requests : ClearCache(r) \/ ClearClosed(r) \/ Removed(r) \/ Dropped(r)
           \/ \E d \in Requests : SlateDbTask(d)
           \/ ShutdownSignal \/ CloseActive \/ Exit \/ Replaced
           \/ AllEnded \/ UNCHANGED serviceVars
  BY <1>3, OwnCallSteps
<1>4. QED BY <1>1, <1>2, <1>3 DEF ServiceNext

\* Handlers, and the removal of the cache directory, answer one request.
LEMMA ServiceAnswering ==
    ASSUME ServiceInv, AckedDurable', [ServiceNext]_serviceVars,
           NEW r \in Requests, Handler(r)
    PROVE  Answering(r) \/ (Logs' = Logs /\ Answers' = Answers /\ UNCHANGED <<asked, kind>>)
<1>0. /\ Shared /\ Keeps
      /\ pc \in [Requests -> {"new"} \cup Busy \cup Ended]
  BY ServiceShares, ServiceMoves DEF ServiceInv, ServiceTypeOK
<1>1. CASE Handle(r)
  BY <1>0, <1>1, HandleAnswers
<1>2. CASE ClearCache(r)
  <2>1. UNCHANGED <<wal, kind, asked>> /\ \A q \in Requests \ {r} : pc'[q] = pc[q]
    BY <1>0, <1>2 DEF ClearCache, CloseStart, engine, Go
  <2>2. pc[r] = "lock" /\ pc'[r] \in {"closing", "removing"}
    BY <1>0, <1>2 DEF ClearCache, Go
  <2>3. QED BY <1>0, <2>1, <2>2, AnswersMove DEF Waiting
<1>3. CASE ClearClosed(r)
  <2>1. UNCHANGED <<wal, kind, asked>> /\ \A q \in Requests \ {r} : pc'[q] = pc[q]
    BY <1>0, <1>3 DEF ClearClosed, engine, Go
  <2>2. pc[r] = "closing" /\ pc'[r] = "removing"
    BY <1>0, <1>3 DEF ClearClosed, Go
  <2>3. QED BY <1>0, <2>1, <2>2, AnswersMove DEF Waiting
<1>4. CASE Removed(r) /\ pc[r] = "removing"
  <2>1. UNCHANGED <<wal, kind, asked>> /\ \A q \in Requests \ {r} : pc'[q] = pc[q]
    BY <1>0, <1>4 DEF Removed, BuildStart, engine, Go
  <2>2. pc'[r] \in {"opening", "error"}
    BY <1>0, <1>4 DEF Removed, Go
  <2>3. QED BY <1>0, <1>4, <2>1, <2>2, AnswersMove DEF Waiting
<1>5. CASE Removed(r) /\ pc[r] # "removing"
  <2>1. UNCHANGED <<wal, pc, asked, kind>>
    BY <1>5 DEF Removed, engine
  <2>2. QED BY <2>1 DEF Logs, Answers
<1>6. QED BY <1>1, <1>2, <1>3, <1>4, <1>5, SharedHandlers DEF Handler

\* Every step of the process is a step of the log or leaves it alone.
LEMMA ServiceLogStep ==
    ASSUME ServiceInv, LogInv, AckedDurable', [ServiceNext]_serviceVars
    PROVE  [ServicePromise!Next]_(ServicePromise!logVars)
<1> USE DEF ServicePromise!Next, ServicePromise!logVars
<1>0. /\ pc \in [Requests -> {"new"} \cup Busy \cup Ended]
      /\ \A r \in Requests : pc[r] # "new" => asked[r] \in Names
  BY DEF ServiceInv, ServiceTypeOK, ObjectInv, CallInv
<1>1. ASSUME NEW r \in Requests, NEW k \in ServiceKinds, NEW n \in Names, Arrive(r, k, n)
      PROVE  ServicePromise!Next
  <2>1. asked[r] = None /\ Logs' = Logs
    BY <1>1 DEF Arrive, Start, LogInv, WantInv, Logs, engine
  <2>2. Answers' = Answers
    BY <1>0, <1>1 DEF Arrive, Start, Go, Answers
  <2>3. ServicePromise!Call(r, k, n)
    BY <1>1, <2>1, <2>2 DEF Arrive, Start, ServicePromise!Call
  <2>4. QED BY <2>3
<1>2. ASSUME NEW r \in Requests, Answering(r)
      PROVE  ServicePromise!Next \/ UNCHANGED ServicePromise!logVars
  <2>1. CASE Answers' = Answers
    BY <1>2, <2>1 DEF Answering
  <2>2. ASSUME NEW a \in {"ok", "error"}, Answers' = [Answers EXCEPT ![r] = a],
               a = "ok" /\ kind[r] = "put" => <<r, OneClient>> \in Durable(asked[r])
        PROVE  ServicePromise!Next
    <3>1. r \in ServicePromise!Open
      BY <1>2 DEF Answering, ServicePromise!Open
    <3>2. pc[r] # "new"
      BY <1>2 DEF Answering, LogInv, WantInv
    <3>3. a = "ok" /\ kind[r] = "put" => <<r, OneClient>> \in ServicePromise!Contents(asked[r])
      BY <1>0, <2>2, <3>2, LogsHold DEF ServicePromise!Contents
    <3>4. ServicePromise!Answer(r, a)
      BY <1>2, <2>2, <3>1, <3>3 DEF Answering, ServicePromise!Answer
    <3>5. QED BY <3>1, <3>4
  <2>3. QED BY <1>2, <2>1, <2>2 DEF Answering
<1>3. ASSUME NEW lost \in SUBSET Requests,
             \A r \in lost : pc[r] \in Busy,
             \A r \in Requests : pc'[r] = IF r \in lost THEN pc'[r] ELSE pc[r],
             \A r \in lost : pc'[r] \in {"lost", "dropped"},
             UNCHANGED <<wal, asked, kind>>
      PROVE  ServicePromise!Next
  <2>1. lost \subseteq ServicePromise!Open
    BY <1>0, <1>3, NoneAssumption DEF ServicePromise!Open, Answers, Busy, Waiting
  <2>2. Answers' = [r \in Requests |-> IF r \in lost THEN "lost" ELSE Answers[r]]
    BY <1>0, <1>3 DEF Answers
  <2>3. ServicePromise!Lose(lost)
    BY <1>3, <2>1, <2>2 DEF ServicePromise!Lose, Logs
  <2>4. QED BY <2>1, <2>3
<1>4. ASSUME NEW r \in Requests, Dropped(r) PROVE ServicePromise!Next
  <2>1. /\ pc[r] \in Busy /\ pc'[r] = "dropped"
        /\ \A q \in Requests \ {r} : pc'[q] = pc[q]
        /\ UNCHANGED <<wal, asked, kind>>
    BY <1>0, <1>4 DEF Dropped, Go, engine
  <2> DEFINE lost == {r}
  <2>2. /\ lost \in SUBSET Requests
        /\ \A q \in lost : pc[q] \in Busy
        /\ \A q \in Requests : pc'[q] = IF q \in lost THEN pc'[q] ELSE pc[q]
        /\ \A q \in lost : pc'[q] \in {"lost", "dropped"}
    BY <2>1
  <2> HIDE DEF lost
  <2>3. QED BY <1>3, <2>1, <2>2
<1>5. CASE Replaced
  <2> DEFINE lost == {r \in Requests : pc[r] \in Busy}
  <2>1. /\ \A q \in Requests : pc'[q] = IF q \in lost THEN "lost" ELSE pc[q]
        /\ UNCHANGED <<wal, asked, kind>>
    BY <1>0, <1>5 DEF Replaced, engine
  <2>2. lost \in SUBSET Requests /\ \A r \in lost : pc[r] \in Busy
    OBVIOUS
  <2> HIDE DEF lost
  <2>3. QED BY <1>3, <2>1, <2>2
<1>6. ASSUME NEW d \in Requests, SlateDbTask(d)
      PROVE  ServicePromise!Next \/ UNCHANGED ServicePromise!logVars
  <2>1. UNCHANGED <<asked, kind>> /\ Answers' = Answers
    BY <1>6 DEF SlateDbTask, calls, Answers
  <2>2. CASE Logs' = Logs
    BY <2>1, <2>2
  <2>3. ASSUME NEW n \in Names, NEW ws \in SUBSET Unlogged(n),
               Logs' = [Logs EXCEPT ![n] = Append(Logs[n], ws)]
        PROVE  ServicePromise!Next
    <3>1. Unlogged(n) = ServicePromise!Pending(n)
      BY LogsHold DEF Unlogged, ServicePromise!Pending, ServicePromise!Made,
                      ServicePromise!Contents, Writes, ServicePromise!Writes
    <3>2. ServicePromise!Commit(n, ws)
      BY <2>1, <2>3, <3>1 DEF ServicePromise!Commit
    <3>3. QED BY <2>3, <3>1, <3>2
  <2>4. QED BY <2>2, <2>3, LogSteps, ServiceMoves DEF Commits
<1>7. CASE CloseActive \/ ShutdownSignal \/ Exit \/ AllEnded \/ UNCHANGED serviceVars
  <2>1. UNCHANGED <<wal, pc, asked, kind>>
    BY <1>7 DEF CloseActive, CloseStart, ShutdownSignal, Exit, AllEnded, serviceVars,
                vars, engine, calls
  <2>2. Logs' = Logs /\ Answers' = Answers
    BY <2>1 DEF Logs, Answers
  <2>3. QED BY <2>1, <2>2
<1>8. ASSUME NEW r \in Requests, Handler(r)
      PROVE  ServicePromise!Next \/ UNCHANGED ServicePromise!logVars
  BY <1>2, <1>8, ServiceAnswering
<1>9. QED
  BY <1>1, <1>4, <1>5, <1>6, <1>7, <1>8 DEF ServiceNext

\* Every step keeps the log's invariant.
LEMMA ServiceLogStays == ServiceInv /\ LogInv /\ [ServiceNext]_serviceVars => LogInv'
BY ServiceCallSteps, LogInductive, ServiceMoves, ServiceShares

\* It holds of a process that has served nothing.
LEMMA ServiceLogStarts == ServiceInit => LogInv
BY DEF ServiceInit, Init, EngineInit, LogInv, WantInv, Durable

\* The container implements the same log: the Dbs that dropped handlers, a
\* shutdown and lost processes leave running may still write what was handed to
\* them, but nothing twice and nothing that was answered ok too early.
THEOREM ServiceKeepsLog == ServiceSpec => ServiceLogKept
<1>1. ServiceInit => ServicePromise!Init
  <2> SUFFICES ASSUME ServiceInit PROVE ServicePromise!Init
    OBVIOUS
  <2>1. Logs = [n \in Names |-> <<>>]
    <3>1. \A n \in Names : [i \in DOMAIN wal[n] |-> wal[n][i].writes] = <<>>
      BY DEF ServiceInit, Init, EngineInit
    <3>2. QED BY <3>1 DEF Logs
  <2>2. Answers = [r \in Requests |-> None]
    BY DEF ServiceInit, Init, Answers
  <2>3. QED BY <2>1, <2>2 DEF ServiceInit, Init, ServicePromise!Init
<1>2. ServiceInv /\ ServiceInv' /\ LogInv /\ [ServiceNext]_serviceVars
        => [ServicePromise!Next]_(ServicePromise!logVars)
  BY ServiceLogStep DEF ServiceInv, ObjectInv
<1>3. QED
  BY <1>1, <1>2, ServiceInitInv, ServiceNextInv, ServiceLogStarts, ServiceLogStays, PTL
     DEF ServiceSpec, ServiceLogKept, ServicePromise!Spec

----------------------------------------------------------------------------
(***************************************************************************)
(* Real time.  The order is an argument about the log alone (PastInv); the *)
(* container only has to remember answers as the object does.              *)
(***************************************************************************)

\* What the container's requests remember.
LEMMA ServiceRemembers ==
    ASSUME ServiceInv, [ServiceNext]_serviceVars, NEW q \in Requests
    PROVE  Remembers(q)
<1>0. /\ pc \in [Requests -> {"new"} \cup Busy \cup Ended]
      /\ before \in [Requests -> SUBSET Requests]
  BY DEF ServiceInv, ServiceTypeOK
<1>1. ASSUME NEW r \in Requests, NEW k \in ServiceKinds, NEW n \in Names, Arrive(r, k, n)
      PROVE  Remembers(q)
  BY <1>0, <1>1 DEF Arrive, Start, Go, Remembers
<1>2. ASSUME NEW r \in Requests, Handle(r)
      PROVE  Remembers(q)
  BY <1>2, HandleRemembers, ServiceMoves, ServiceShares
<1>3. ASSUME before' = before, pc'[q] = pc[q] \/ pc[q] \in Busy
      PROVE  Remembers(q)
  BY <1>3 DEF Remembers, Busy, Waiting
<1>4. CASE \E r \in Requests : ClearCache(r) \/ ClearClosed(r) \/ Removed(r)
  BY <1>0, <1>3, <1>4 DEF ClearCache, ClearClosed, Removed, Go, Busy, Waiting
<1>5. CASE (\E r \in Requests : Dropped(r)) \/ Replaced
  BY <1>0, <1>3, <1>5 DEF Dropped, Replaced, Go
<1>6. CASE \/ \E d \in Requests : SlateDbTask(d)
           \/ ShutdownSignal \/ CloseActive \/ Exit \/ AllEnded \/ UNCHANGED serviceVars
  BY <1>3, <1>6 DEF SlateDbTask, ShutdownSignal, CloseActive, Exit, AllEnded, calls, vars,
                    serviceVars
<1>7. QED
  BY <1>1, <1>2, <1>4, <1>5, <1>6, SharedHandlers DEF ServiceNext, Handler

\* Every step keeps the order.
LEMMA ServicePastStays ==
    ServiceInv /\ LogInv /\ PastInv /\ [ServiceNext]_serviceVars => PastInv'
BY ServiceCallSteps, ServiceRemembers, ServiceMoves, PastInductive DEF ServiceInv, ObjectInv

\* Two puts of the container, one answered before the other arrived, stand in
\* that order in the log, though the Dbs that wrote them may have been forgotten,
\* fenced or lost with their process.
THEOREM ServiceFollowsRealTime == ServiceSpec => []RealTimeOrder
<1>1. ServiceInit => PastInv
  BY DEF ServiceInit, Init, EngineInit, PastInv, Logs
<1>2. QED
  BY <1>1, PastIsOrder, ServiceInitInv, ServiceNextInv, ServiceLogStarts, ServiceLogStays,
     ServicePastStays, PTL DEF ServiceSpec

\* No step of the process, of its background tasks or of the R2 requests of a
\* lost one removes or rewrites an object of a log.
THEOREM ServiceRewritesNothing == ServiceSpec => LogOnlyGrows
<1>1. ServiceInv /\ [ServiceNext]_serviceVars =>
        [\A n \in Names : \A i \in DOMAIN wal[n] :
            i \in DOMAIN wal'[n] /\ wal'[n][i] = wal[n][i]]_vars
  BY ServiceMoves DEF Keeps
<1>2. QED
  BY <1>1, ServiceInitInv, ServiceNextInv, PTL DEF ServiceSpec, LogOnlyGrows

\* One process serves several names, and a request may hold a Db of the first
\* while another reopens under a second: no write reaches the other's log.
THEOREM ServiceNamesNeverMix == ServiceSpec => []NamesNeverMix
<1>1. LogInv => NamesNeverMix
  BY DEF LogInv, NamesNeverMix
<1>2. QED
  BY <1>1, ServiceInitInv, ServiceNextInv, ServiceLogStarts, ServiceLogStays, PTL
     DEF ServiceSpec

----------------------------------------------------------------------------
(***************************************************************************)
(* The drain.  A flush drains the Db that is installed; a batch's Db that  *)
(* still runs is that one, has failed, or was forgotten or lost.           *)
(***************************************************************************)
ServiceDrainInv == \A f, b \in Requests : Drains(f, b) => DrainAt(f, b)

\* Dbs that are gone stay gone.
LEMMA OrphansStay ==
    ASSUME ServiceInv, [ServiceNext]_serviceVars
    PROVE  \A d \in orphans : status[d] # "unused" => d \in orphans'
<1>0. orphans \in SUBSET Requests
  BY DEF ServiceInv, ServiceTypeOK
<1>1. CASE \E r \in Requests : Handle(r)
  BY <1>1, HandleKeeps, ServiceMoves, ServiceShares DEF Kept
<1>2. CASE Replaced
  BY <1>0, <1>2 DEF Replaced
<1>3. CASE \E r \in Requests : ClearCache(r) \/ ClearClosed(r) \/ Removed(r) \/ Dropped(r)
  BY <1>3 DEF ClearCache, ClearClosed, Removed, Dropped, object
<1>4. CASE \/ \E r \in Requests, k \in ServiceKinds, n \in Names : Arrive(r, k, n)
           \/ \E d \in Requests : SlateDbTask(d)
           \/ ShutdownSignal \/ CloseActive \/ Exit \/ AllEnded \/ UNCHANGED serviceVars
  BY <1>4 DEF Arrive, Start, SlateDbTask, ShutdownSignal, CloseActive, Exit, AllEnded,
              serviceVars, vars, object
<1>5. QED
  BY <1>1, <1>2, <1>3, <1>4, SharedHandlers DEF ServiceNext, Handler

\* A flush of the container is sent and answered as the object's.
LEMMA ServiceFlushMoves ==
    ASSUME ServiceInv, [ServiceNext]_serviceVars, NEW f \in Requests, kind'[f] = "flush"
    PROVE  FlushMove(f)
<1>0. pc \in [Requests -> {"new"} \cup Busy \cup Ended]
  BY DEF ServiceInv, ServiceTypeOK
<1>1. CASE \E r \in Requests : Handle(r)
  BY <1>1, HandleFlushes, ServiceMoves, ServiceShares
<1>2. ASSUME NEW r \in Requests, NEW k \in ServiceKinds, NEW n \in Names, Arrive(r, k, n)
      PROVE  FlushMove(f)
  BY <1>0, <1>2 DEF Arrive, Start, Go, FlushMove
<1>3. CASE \E r \in Requests : ClearCache(r) \/ ClearClosed(r) \/ Removed(r) \/ Dropped(r)
  BY <1>0, <1>3 DEF ClearCache, ClearClosed, Removed, Dropped, Go, FlushMove
<1>4. CASE Replaced
  BY <1>0, <1>4 DEF Replaced, FlushMove
<1>5. CASE \/ \E d \in Requests : SlateDbTask(d)
           \/ ShutdownSignal \/ CloseActive \/ Exit \/ AllEnded \/ UNCHANGED serviceVars
  BY <1>5 DEF SlateDbTask, ShutdownSignal, CloseActive, Exit, AllEnded, serviceVars, vars,
              calls, FlushMove
<1>6. QED
  BY <1>1, <1>2, <1>3, <1>4, <1>5, SharedHandlers DEF ServiceNext, Handler

\* What a flush must see to was known when it was called.
LEMMA ServiceDrainsStay ==
    ASSUME ServiceInv, PastInv, [ServiceNext]_serviceVars,
           NEW f \in Requests, pc[f] # "new",
           NEW b \in Requests, Drains(f, b)', want'[b] # {}
    PROVE  /\ Drains(f, b) /\ Placed(b) /\ want'[b] = want[b] /\ asked'[b] = asked[b]
<1>0. /\ EngineRuns /\ Keeps
      /\ RequestKept(f) /\ RequestKept(b) /\ Remembers(f)
  BY ServiceMoves, RequestsKept, ServiceRemembers
<1>1. kind[f] = "flush" /\ b \in before[f] /\ asked'[f] = asked[f]
  BY <1>0 DEF Drains, RequestKept, Remembers
<1>2. pc[b] = "ok"
  BY <1>1 DEF PastInv
<1>3. kind[b] = "bench" /\ asked'[b] = asked[b] /\ held'[b] = held[b] /\ want'[b] = want[b]
  BY <1>0, <1>2 DEF RequestKept, WantKept, Drains, Ok, Early, Put, FlushCall, BenchPut
<1>4. Placed(b)
  BY <1>3 DEF ServiceInv, BatchInv
<1>5. status[held[b]] # "failed"
  BY <1>0, <1>3, <1>4, StoppedStays DEF Drains, Placed
<1>6. held[b] \notin orphans
  BY <1>3, <1>4, OrphansStay DEF Drains, Placed
<1>7. QED BY <1>1, <1>2, <1>3, <1>4, <1>5, <1>6 DEF Drains, Ok

\* A flush takes over what the batches it must see to have left in the buffer.
LEMMA ServiceFlushTakesOver ==
    ASSUME ServiceInv, ServedInv,
           NEW f \in Requests, FlushCall(f), NEW b \in Requests, Drains(f, b), Placed(b)
    PROVE  want[b] \subseteq Durable(asked[b]) \cup want'[f]
<1>0. MutexInv /\ EngineTypeOK /\ want \in [Requests -> SUBSET Writes]
  <2>1. Handle(f)
    BY DEF Handle
  <2>2. QED BY <2>1, HandleServes DEF ServiceInv, ServiceTypeOK
<1>1. /\ held[f] = active /\ held[f] \in Requests /\ want'[f] = buffer[held[f]]
  BY <1>0 DEF FlushCall, ToDrain, ServedInv, AnswerInv, ServiceInv, ObjectInv, CallInv
<1>2. /\ want[b] \subseteq Durable(asked[b]) \cup buffer[held[b]]
      /\ held[b] \in Requests \ orphans
      /\ status[held[b]] \in Live \cup {"closed"}
  BY <1>0 DEF Drains, Placed, EngineTypeOK, Status, Live
<1>3. CASE status[held[b]] = "closed"
  BY <1>2, <1>3 DEF ServiceInv
<1>4. CASE status[held[b]] \in Live
  <2>1. Owned(held[b]) /\ active # None
    BY <1>0, <1>1, <1>2, <1>4, NoneAssumption DEF MutexInv
  <2>2. held[b] = held[f]
    BY <1>0, <1>1, <1>2, <2>1, NoneAssumption DEF MutexInv, Owned
  <2>3. QED BY <1>1, <1>2, <2>2
<1>5. QED BY <1>2, <1>3, <1>4

\* Every step keeps the drain's invariant.
LEMMA ServiceDrainInductive ==
    ASSUME ServiceInv, ServedInv, PastInv, ServiceDrainInv, [ServiceNext]_serviceVars
    PROVE  ServiceDrainInv'
<1> SUFFICES ASSUME NEW f \in Requests, NEW b \in Requests, Drains(f, b)'
             PROVE  DrainAt(f, b)'
  BY DEF ServiceDrainInv
<1>1. FlushMove(f)
  BY ServiceFlushMoves DEF Drains
<1>2. CASE want'[b] = {} \/ pc'[f] \notin {"sent", "ok"}
  BY <1>2 DEF DrainAt
<1>3. CASE want'[b] # {} /\ pc'[f] \in {"sent", "ok"}
  <2>1. pc[f] # "new"
    BY <1>1, <1>3 DEF FlushMove, FlushCall, DurableOk
  <2>2. /\ Drains(f, b) /\ Placed(b) /\ want'[b] = want[b] /\ asked'[b] = asked[b]
    BY <1>3, <2>1, ServiceDrainsStay
  <2>3. DrainAt(f, b) /\ WantKept(f)
    BY <2>2, RequestsKept DEF ServiceDrainInv, RequestKept
  <2>4. FlushCall(f) => want[b] \subseteq Durable(asked[b]) \cup want'[f]
    BY <2>2, ServiceFlushTakesOver
  <2>5. QED BY <1>1, <2>2, <2>3, <2>4, DrainGoesOn, ServiceMoves, ServiceShares
<1>4. QED BY <1>2, <1>3

\* A flush the container answered with ok has put in R2 the writes of every batch
\* answered before it arrived, unless the Db that took them failed, or was left to
\* itself by a dropped handler or a lost process.
THEOREM ServiceFlushDrains == ServiceSpec => []DrainComplete
<1>1. ServiceInit => ServedInv /\ PastInv /\ ServiceDrainInv
  BY NoneAssumption
     DEF ServiceInit, Init, EngineInit, PastInv, Logs, ServiceDrainInv, Drains, DrainAt,
         Ok, ServedInv, TopInv, HeldInv, AnswerInv, Holding, Served
<1>2. ServiceDrainInv => DrainComplete
  BY DEF ServiceDrainInv, DrainAt, Drains, DrainComplete, Ok
<1>3. QED
  BY <1>1, <1>2, ServiceInitInv, ServiceNextInv, ServiceLogStarts, ServiceLogStays,
     ServicePastStays, ServedInductive, ServiceDrainInductive, PTL DEF ServiceSpec
=============================================================================
