--------------------------- MODULE ContainerService ---------------------------
(***************************************************************************)
(* The container's process, container/src/main.rs.  Its database(),        *)
(* reopen and routes are those of SlateDbObject, on threads instead of one *)
(* isolate: every handler still takes the mutex first and holds it across  *)
(* open and close.  The container adds                                     *)
(*   - handlers that are dropped at an await when their connection ends,   *)
(*     which releases the mutex and forgets the Db being opened or closed; *)
(*   - clear_cache, whose remove_dir_all runs on a thread of its own that  *)
(*     a dropped handler does not stop;                                    *)
(*   - SIGTERM: no more connections, then close_active, then the end;      *)
(*   - replacement of the process at any time, as eviction there.          *)
(* orphans holds the Dbs nobody answers for: of a lost process, or         *)
(* forgotten by a dropped handler.                                         *)
(***************************************************************************)
EXTENDS SlateDbObject

VARIABLES
    phase,      \* main(): serving, or where it stands after SIGTERM
    closer,     \* the Db that close_active awaits, or None
    removal     \* the clear_cache requests whose remove_dir_all runs

service == <<phase, closer, removal>>
serviceVars == <<vars, service>>

ServiceKinds == Kinds \cup {"clear"}
Busy == Waiting \cup {"removing"}
Ended == Answered \cup {"dropped"}

ServiceTypeOK ==
    /\ EngineTypeOK
    /\ active \in Requests \cup {None}
    /\ lock \in Requests \cup {None}
    /\ pc \in [Requests -> {"new"} \cup Busy \cup Ended]
    /\ kind \in [Requests -> ServiceKinds \cup {None}]
    /\ asked \in [Requests -> Names \cup {None}]
    /\ held \in [Requests -> Requests \cup {None}]
    /\ want \in [Requests -> SUBSET Writes]
    /\ before \in [Requests -> SUBSET Requests]
    /\ orphans \in SUBSET Requests
    /\ phase \in {"serving", "draining", "closing", "exited"}
    /\ closer \in Requests \cup {None}
    /\ removal \in SUBSET Requests

ServiceInit == Init /\ phase = "serving" /\ closer = None /\ removal = {}

----------------------------------------------------------------------------
(* The handlers shared with SlateDbObject. *)

\* database() with open_database().
Database(r) ==
    /\ DatabaseWrongName(r) \/ DatabaseOpen(r) \/ DatabaseOpening(r)
       \/ Installed(r) \/ OpenErr(r)
    /\ UNCHANGED service

PutOrDelete(r) == (Put(r) \/ DurableOk(r)) /\ UNCHANGED service

\* get, scan, flush and stats.
OtherRoute(r) == (Get(r) \/ FlushCall(r) \/ Stats(r)) /\ UNCHANGED service

BenchmarkBatch(r) ==
    /\ BenchOk(r) \/ BenchErr(r) \/ \E c \in Clients : BenchPut(r, c)
    /\ UNCHANGED service

ReopenRoute(r) ==
    /\ kind[r] = "reopen"
    /\ Reopen(r) \/ ReopenClosed(r)
    /\ UNCHANGED service

\* What the routes answer when SlateDB fails a call or a close.
RouteErr(r) == (ReopenCloseErr(r) \/ CallErr(r)) /\ UNCHANGED service

----------------------------------------------------------------------------
(* clear_cache. *)

\* MUTANT: the directory is removed without awaiting close().
ClearWithoutClose(r) ==
    /\ pc[r] = "lock" /\ kind[r] = "clear"
    /\ lock = None
    /\ HoldLock(r)
    /\ active' = None
    /\ removal' = removal \cup {r}
    /\ Go(r, "removing")
    /\ UNCHANGED <<engine, orphans, kind, asked, held, want, before, phase, closer>>

\* It takes the Db and awaits its close; with none open it goes on to remove
\* the directory.
ClearCache(r) ==
    /\ pc[r] = "lock" /\ kind[r] = "clear"
    /\ lock = None
    /\ HoldLock(r)
    /\ active' = None
    /\ \/ /\ active # None
          /\ held' = [held EXCEPT ![r] = active]
          /\ CloseStart(active)
          /\ Go(r, "closing")
          /\ UNCHANGED removal
       \/ /\ active = None
          /\ removal' = removal \cup {r}
          /\ Go(r, "removing")
          /\ UNCHANGED <<engine, held>>
    /\ UNCHANGED <<orphans, kind, asked, want, before, phase, closer>>

ClearClosed(r) ==
    /\ pc[r] = "closing" /\ kind[r] = "clear" /\ status[held[r]] = "closed"
    /\ removal' = removal \cup {r}
    /\ Go(r, "removing")
    /\ UNCHANGED <<engine, object, kind, asked, held, want, before, phase, closer>>

\* MUTANT: the error of remove_dir_all returns with the mutex still held.
RemovedKeepsLock(r) ==
    /\ r \in removal
    /\ removal' = removal \ {r}
    /\ \/ pc[r] # "removing" /\ UNCHANGED <<engine, lock, pc>>
       \/ pc[r] = "removing" /\ BuildStart(r, asked[r]) /\ Go(r, "opening") /\ UNCHANGED lock
       \/ pc[r] = "removing" /\ Go(r, "error") /\ UNCHANGED <<engine, lock>>
    /\ UNCHANGED <<active, orphans, kind, asked, held, want, before, phase, closer>>

\* remove_dir_all ends.  A handler that still waits goes on to open, or
\* returns the error with nothing open.
Removed(r) ==
    /\ r \in removal
    /\ removal' = removal \ {r}
    /\ \/ pc[r] # "removing" /\ UNCHANGED <<engine, lock, pc>>
       \/ pc[r] = "removing" /\ BuildStart(r, asked[r]) /\ Go(r, "opening") /\ UNCHANGED lock
       \/ pc[r] = "removing" /\ Go(r, "error") /\ lock' = None /\ UNCHANGED engine
    /\ UNCHANGED <<active, orphans, kind, asked, held, want, before, phase, closer>>

----------------------------------------------------------------------------
(* The process. *)

Arrive(r, k, n) == phase = "serving" /\ Start(r, k, n) /\ UNCHANGED service

\* The Db that a handler dropped now would leave to itself.
Forgotten(r) ==
    CASE pc[r] = "opening" -> {r}
      [] pc[r] = "closing" -> {held[r]}
      [] OTHER -> {}

\* The handler's future is dropped, and its guard with it.
Dropped(r) ==
    /\ pc[r] \in Busy
    /\ Go(r, "dropped")
    /\ lock' = IF lock = r THEN None ELSE lock
    /\ orphans' = orphans \cup Forgotten(r)
    /\ UNCHANGED <<engine, active, kind, asked, held, want, before, service>>

\* SIGTERM: no more requests are taken.
ShutdownSignal ==
    /\ phase = "serving"
    /\ phase' = "draining"
    /\ UNCHANGED <<vars, closer, removal>>

Drained == phase = "draining" /\ \A r \in Requests : pc[r] \notin Busy

\* MUTANT: the process ends without awaiting close().
ExitAtOnce ==
    /\ Drained
    /\ active' = None
    /\ phase' = "exited"
    /\ UNCHANGED <<engine, lock, orphans, calls, closer, removal>>

\* The handlers are done: main() takes the Db and closes it.
CloseActive ==
    /\ Drained
    /\ active' = None
    /\ \/ /\ active # None
          /\ CloseStart(active)
          /\ closer' = active
          /\ phase' = "closing"
       \/ /\ active = None
          /\ phase' = "exited"
          /\ UNCHANGED <<engine, closer>>
    /\ UNCHANGED <<lock, orphans, calls, removal>>

\* close() returned; its error is only logged.
Exit ==
    /\ phase = "closing" /\ status[closer] \in {"closed", "failed"}
    /\ phase' = "exited"
    /\ UNCHANGED <<vars, closer, removal>>

\* The process ends, also before its time, and another takes its place.
Replaced ==
    /\ phase # "serving" \/ active # None \/ removal # {}
       \/ \E r \in Requests : pc[r] \in Busy
    /\ active' = None
    /\ lock' = None
    /\ orphans' = {d \in Requests : status[d] # "unused"}
    /\ pc' = [r \in Requests |-> IF pc[r] \in Busy THEN "lost" ELSE pc[r]]
    /\ phase' = "serving" /\ closer' = None /\ removal' = {}
    /\ UNCHANGED <<engine, kind, asked, held, want, before>>

SlateDbTask(d) == EngineStep(d) /\ UNCHANGED <<object, calls, service>>

AllEnded ==
    /\ \A r \in Requests : pc[r] \in Ended
    /\ UNCHANGED serviceVars

Handler(r) ==
    \/ Database(r) \/ PutOrDelete(r) \/ OtherRoute(r) \/ BenchmarkBatch(r)
    \/ ReopenRoute(r) \/ RouteErr(r)
    \/ ClearCache(r) \/ ClearClosed(r) \/ Removed(r)

ServiceNext ==
    \/ \E r \in Requests, k \in ServiceKinds, n \in Names : Arrive(r, k, n)
    \/ \E r \in Requests : Handler(r) \/ Dropped(r)
    \/ \E d \in Requests : SlateDbTask(d)
    \/ ShutdownSignal \/ CloseActive \/ Exit \/ Replaced
    \/ AllEnded

ServiceSpec == ServiceInit /\ [][ServiceNext]_serviceVars

\* Tokio polls every handler and main() when they can run, and so the engine's
\* tasks while a handler or main() of the process has the Db, forgotten or not.
OwnTask(d) ==
    /\ d \notin orphans \/ \E r \in Requests : pc[r] = "sent" /\ held[r] = d
    /\ Progress(d)
    /\ UNCHANGED <<object, calls, service>>

ServiceFairness ==
    /\ \A r \in Requests : WF_serviceVars(Handler(r)) /\ WF_serviceVars(OwnTask(r))
    /\ WF_serviceVars(CloseActive) /\ WF_serviceVars(Exit)

FairServiceSpec == ServiceSpec /\ ServiceFairness

----------------------------------------------------------------------------
\* A Db with work of its own is the one installed, or the one its handler or
\* main() awaits, or nobody answers for it; the process answers for one only.
ServiceDbOwned ==
    /\ \A d \in Requests : status[d] \in Live /\ d \notin orphans
        => \/ active = d \/ closer = d
           \/ lock = d /\ pc[d] = "opening"
           \/ lock # None /\ pc[lock] = "closing" /\ held[lock] = d
    /\ \A d, e \in Requests :
        {status[d], status[e]} \subseteq Live /\ {d, e} \cap orphans = {} => d = e

\* The cache directory is removed under no Db that the process still answers
\* for, as long as the handler of clear_cache waits for the removal.
RemovalAlone ==
    \A r \in removal : pc[r] = "removing" =>
        \A d \in Requests \ orphans : status[d] \in Live => name[d] # asked[r]

\* A shutdown that closed its Db leaves nothing behind: what any batch was
\* told is written is in R2, unless its Db failed or was forgotten
\* (container/README.md:18).
ShutdownDrains ==
    \A b \in Requests :
        ( /\ phase = "exited" /\ Ok(b, "bench")
          /\ status[held[b]] # "failed" /\ held[b] \notin orphans )
            => want[b] \subseteq Durable(asked[b])

ServicePromise ==
    INSTANCE WriteLog WITH Routes <- ServiceKinds, log <- Logs, answer <- Answers

\* So is the container's process, though handlers are dropped and Dbs forgotten:
\* a Db nobody answers for may still write, but writes nothing twice.
ServiceLogKept == ServicePromise!Spec

\* Every request that arrived is answered, unless its handler was dropped or its
\* process lost: no way for a handler to end leaves the mutex held.
ServiceAnswers ==
    \A r \in Requests : pc[r] = "lock" ~> pc[r] \in Ended

\* After SIGTERM the process ends: the handlers still running finish, and so
\* does the close (or the container has been replaced meanwhile).
ShutdownEnds == phase = "draining" ~> phase \in {"exited", "serving"}
=============================================================================
