------------------------------- MODULE SlateDb -------------------------------
(***************************************************************************)
(* The SlateDB engine as lib.rs drives it: Db::builder(..).build(), put,   *)
(* put_with_options(await_durable: false), get, flush_with_options and     *)
(* close.  The engine is a published crate and not part of the repository, *)
(* so its actions are external; what the repository supplies, the          *)
(* conditional create of a WAL object, is Created below.                   *)
(*                                                                         *)
(* A database name owns a log of WAL objects numbered 1, 2, ..., each      *)
(* written once by a conditional create (PutMode::Create).  A Db learns    *)
(* the log when it is built, appends an empty fence object to it and then  *)
(* writes the objects that follow.  A writer whose next number is taken    *)
(* has been fenced.  Manifest, compaction and SST files rearrange durable  *)
(* data and are left out; so are the writer epochs of the manifest, which  *)
(* only make a fenced writer fail earlier.                                 *)
(***************************************************************************)
EXTENDS Naturals, Sequences

CONSTANTS
    Requests,   \* requests; a Db is named for the request that builds it
    Clients,    \* client streams of one benchmark batch
    Names,      \* logical database names, each an R2 prefix of its own
    None

Writes == Requests \X Clients     \* one write per request and client stream

VARIABLES
    wal,        \* wal[n]: the WAL objects of n in R2, oldest first
    status,     \* status[d]: life of the Db built by request d
    name,       \* name[d]: the database that d opened
    next,       \* next[d]: number of the WAL object d writes next
    buffer      \* buffer[d]: writes accepted and not yet in R2

engine == <<wal, status, name, next, buffer>>

Status == {"unused", "building", "open", "closing", "closed", "failed"}
Entry  == [by: Requests, writes: SUBSET Writes]

EngineTypeOK ==
    /\ wal \in [Names -> Seq(Entry)]
    /\ status \in [Requests -> Status]
    /\ name \in [Requests -> Names \cup {None}]
    /\ next \in [Requests -> Nat]
    /\ buffer \in [Requests -> SUBSET Writes]

EngineInit ==
    /\ wal = [n \in Names |-> <<>>]
    /\ status = [d \in Requests |-> "unused"]
    /\ name = [d \in Requests |-> None]
    /\ next = [d \in Requests |-> 0]
    /\ buffer = [d \in Requests |-> {}]

----------------------------------------------------------------------------
\* Everything a crash cannot take away.
Durable(n) == UNION {wal[n][i].writes : i \in DOMAIN wal[n]}

\* What d knows to be durable, and what a read of d returns (reads include
\* the memtable).
Known(d) == UNION {wal[name[d]][i].writes :
                     i \in {j \in DOMAIN wal[name[d]] : j < next[d]}}
View(d)  == Known(d) \cup buffer[d]

\* MUTANT: PutMode::Create sent without its If-None-Match condition.
UnconditionalCreate(n, i) == TRUE

\* R2 accepts the create of WAL object i of n: it does not exist yet.
Created(n, i) == i \notin DOMAIN wal[n]

\* wal[n] with object i written by d.
Stored(n, i, d, ws) ==
    [wal EXCEPT ![n] =
        [j \in DOMAIN wal[n] \cup {i} |->
            IF j = i THEN [by |-> d, writes |-> ws] ELSE wal[n][j]]]

----------------------------------------------------------------------------
BuildStart(d, n) ==
    /\ status[d] = "unused"
    /\ status' = [status EXCEPT ![d] = "building"]
    /\ name' = [name EXCEPT ![d] = n]
    /\ UNCHANGED <<wal, next, buffer>>

\* The fence object lands right after the newest object; a create that loses
\* the number to another writer is retried inside build().
BuildOk(d) ==
    /\ status[d] = "building"
    /\ LET fence == Len(wal[name[d]]) + 1 IN
         /\ wal' = Stored(name[d], fence, d, {})
         /\ next' = [next EXCEPT ![d] = fence + 1]
    /\ status' = [status EXCEPT ![d] = "open"]
    /\ UNCHANGED <<name, buffer>>

\* build() fails; the fence object may be in R2 all the same.
BuildErr(d) ==
    /\ status[d] = "building"
    /\ \/ UNCHANGED wal
       \/ wal' = Stored(name[d], Len(wal[name[d]]) + 1, d, {})
    /\ status' = [status EXCEPT ![d] = "failed"]
    /\ UNCHANGED <<name, next, buffer>>

Accept(d, w) ==
    /\ status[d] = "open"
    /\ buffer' = [buffer EXCEPT ![d] = @ \cup {w}]
    /\ UNCHANGED <<wal, status, name, next>>

\* The background flush writes the buffered writes as one WAL object.
Flush(d) ==
    /\ status[d] \in {"open", "closing"}
    /\ buffer[d] # {}
    /\ Created(name[d], next[d])
    /\ wal' = Stored(name[d], next[d], d, buffer[d])
    /\ next' = [next EXCEPT ![d] = @ + 1]
    /\ buffer' = [buffer EXCEPT ![d] = {}]
    /\ UNCHANGED <<status, name>>

\* MUTANT: the refused create is not reported as AlreadyExists, and the writer
\* goes on with the next free number.
FencedMovesOn(d) ==
    /\ status[d] \in {"open", "closing"}
    /\ buffer[d] # {}
    /\ ~Created(name[d], next[d])
    /\ next' = [next EXCEPT ![d] = Len(wal[name[d]]) + 1]
    /\ UNCHANGED <<wal, status, name, buffer>>

\* AlreadyExists: a later writer holds the number.
Fenced(d) ==
    /\ status[d] \in {"open", "closing"}
    /\ buffer[d] # {}
    /\ ~Created(name[d], next[d])
    /\ status' = [status EXCEPT ![d] = "failed"]
    /\ UNCHANGED <<wal, name, next, buffer>>

\* R2 fails for good; the object may have been stored and its answer lost.
Breaks(d) ==
    /\ status[d] \in {"open", "closing"}
    /\ \/ UNCHANGED wal
       \/ /\ buffer[d] # {}
          /\ Created(name[d], next[d])
          /\ wal' = Stored(name[d], next[d], d, buffer[d])
    /\ status' = [status EXCEPT ![d] = "failed"]
    /\ UNCHANGED <<name, next, buffer>>

\* close() refuses new writes and returns once the buffer is in R2; on a
\* failed Db it returns the error.
CloseStart(d) ==
    /\ status' = [status EXCEPT ![d] = IF @ = "open" THEN "closing" ELSE @]
    /\ UNCHANGED <<wal, name, next, buffer>>

CloseOk(d) ==
    /\ status[d] = "closing"
    /\ buffer[d] = {}
    /\ status' = [status EXCEPT ![d] = "closed"]
    /\ UNCHANGED <<wal, name, next, buffer>>

\* A step the engine's own tasks must take once they can.
Progress(d) == BuildOk(d) \/ Flush(d) \/ Fenced(d) \/ CloseOk(d)

EngineStep(d) == Progress(d) \/ BuildErr(d) \/ Breaks(d)

----------------------------------------------------------------------------
Built(d) == next[d] > 0

\* Single writer: the objects of one Db are contiguous in the log.  Once a
\* later Db has put its fence, the earlier one never writes again.
WritersContiguous ==
    \A n \in Names : \A i, j, k \in DOMAIN wal[n] :
        i < j /\ j < k /\ wal[n][i].by = wal[n][k].by
            => wal[n][j].by = wal[n][i].by

(***************************************************************************)
(* Why the single writer holds, for the proofs: a Db that could still      *)
(* create its next object wrote the newest one, so at most one Db can, and *)
(* a Db that has no fence yet has nothing in any log.                      *)
(***************************************************************************)
UnbuiltIsAbsent(d) ==
    status[d] \in {"unused", "building"} =>
        /\ ~Built(d)
        /\ \A n \in Names : \A i \in DOMAIN wal[n] : wal[n][i].by # d

BuiltIsFenced(d) ==
    Built(d) =>
        /\ next[d] - 1 \in DOMAIN wal[name[d]]
        /\ wal[name[d]][next[d] - 1].by = d

EngineInv ==
    /\ \A d \in Requests :
         /\ UnbuiltIsAbsent(d)
         /\ BuiltIsFenced(d)
         /\ status[d] # "unused" => name[d] \in Names
         /\ status[d] \in {"open", "closing", "closed"} => Built(d)
    /\ WritersContiguous
=============================================================================
