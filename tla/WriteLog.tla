------------------------------- MODULE WriteLog -------------------------------
(***************************************************************************)
(* What the callers of either service may rely on for their writes: each   *)
(* database is a log of objects that only grows.  A write enters the log   *)
(* its request addressed, once and whole with the writes it was flushed    *)
(* with, and never before the request came.  A put answered with ok is in  *)
(* the log by then.  Every other answer, and a batch's ok, leaves open     *)
(* whether the writes are there or will be; so does a lost request, whose  *)
(* writes may still land.  Dbs, buffers, mutexes and fences are no part of *)
(* the promise.                                                            *)
(***************************************************************************)
EXTENDS Naturals, Sequences

CONSTANTS Requests, Clients, Names, Routes, OneClient, None

Writes == Requests \X Clients

VARIABLES
    log,        \* log[n]: the objects of n, oldest first, each a set of writes
    asked,      \* the database a request is addressed to
    kind,       \* its route
    answer      \* what its caller was told

logVars == <<log, asked, kind, answer>>

Init ==
    /\ log = [n \in Names |-> <<>>]
    /\ asked = [r \in Requests |-> None]
    /\ kind = [r \in Requests |-> None]
    /\ answer = [r \in Requests |-> None]

Contents(n) == UNION {log[n][i] : i \in DOMAIN log[n]}

\* The writes that the request of w makes: one of a put, one per stream of a
\* batch.
Made(w) == kind[w[1]] = "bench" \/ (kind[w[1]] = "put" /\ w[2] = OneClient)

\* Writes addressed to n that are in no log.
Pending(n) ==
    {w \in Writes : /\ Made(w) /\ asked[w[1]] = n
                    /\ \A m \in Names : w \notin Contents(m)}

\* Requests whose callers still wait.
Open == {r \in Requests : asked[r] # None /\ answer[r] = None}

Call(r, k, n) ==
    /\ asked[r] = None
    /\ asked' = [asked EXCEPT ![r] = n]
    /\ kind' = [kind EXCEPT ![r] = k]
    /\ UNCHANGED <<log, answer>>

\* Pending writes become one object; a fence is an object without writes.
Commit(n, ws) ==
    /\ ws \subseteq Pending(n)
    /\ log' = [log EXCEPT ![n] = Append(log[n], ws)]
    /\ UNCHANGED <<asked, kind, answer>>

Answer(r, a) ==
    /\ r \in Open
    /\ a = "ok" /\ kind[r] = "put" => <<r, OneClient>> \in Contents(asked[r])
    /\ answer' = [answer EXCEPT ![r] = a]
    /\ UNCHANGED <<log, asked, kind>>

\* The service, or the handler of one request, goes without an answer.
Lose(lost) ==
    /\ lost \subseteq Open
    /\ answer' = [r \in Requests |-> IF r \in lost THEN "lost" ELSE answer[r]]
    /\ UNCHANGED <<log, asked, kind>>

Next ==
    \/ \E r \in Requests, k \in Routes, n \in Names : Call(r, k, n)
    \/ \E n \in Names : \E ws \in SUBSET Pending(n) : Commit(n, ws)
    \/ \E r \in Open, a \in {"ok", "error"} : Answer(r, a)
    \/ \E lost \in SUBSET Open : Lose(lost)

Spec == Init /\ [][Next]_logVars
=============================================================================
