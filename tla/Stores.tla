-------------------------------- MODULE Stores --------------------------------
(***************************************************************************)
(* The two deployments: the callers of a bucket all go through the         *)
(* container's bridge (BindingStore), or all through the Durable Object's  *)
(* binding (R2Store).                                                      *)
(***************************************************************************)
EXTENDS BindingStore, Sequences

VARIABLES
    adapter,
    only,       \* of R2Store
    applied     \* history: applied[p]: the callers whose requests R2 applied to p

Worker == INSTANCE R2Store

BothInit ==
    /\ adapter \in {"worker", "bridge"}
    /\ BindingInit
    /\ Worker!R2Init
    /\ applied = [p \in Paths |-> <<>>]

\* SlateDB names the ETag of its updates.  R2Store needs that (see the run
\* r2_etagless); the bridge is asked for updates without one, too.
NamesETag(k) == k # None => (k.mode = "update" => k.etag # None)

\* The requests that a step applies to p: at most one.
NowApplied(p) ==
    {c \in Callers : request[c] = "sent" /\ request'[c] = "stored" /\ call[c].path = p}

Records ==
    applied' = [p \in Paths |->
        IF NowApplied(p) = {} THEN applied[p]
        ELSE Append(applied[p], CHOOSE c \in NowApplied(p) : TRUE)]

BothNext ==
    /\ \/ /\ adapter = "bridge"
          /\ Next
          /\ UNCHANGED <<adapter, only>>
       \/ /\ adapter = "worker"
          /\ Worker!Next
          /\ \A c \in Callers : NamesETag(call'[c])
          /\ UNCHANGED <<adapter, headers, response>>
    /\ Records

BothSpec == BothInit /\ [][BothNext]_<<vars, adapter, only, applied>>

----------------------------------------------------------------------------
\* The requests of c and d were applied to p, one before the other, and between
\* them one that left v there.
Between(p, c, d, v) ==
    \E i, j \in DOMAIN applied[p] :
        /\ {applied[p][i], applied[p][j]} = {c, d}
        /\ \E m \in (i + 1)..(j - 1) : call[applied[p][m]].value = v

\* Two creates of one path both succeed only if the object was deleted between
\* the one and the other: what fences the writers of SlateDB's WAL and manifest
\* (r2_store.rs:479-498, binding_store.rs:148-157).
OneCreator ==
    \A c, d \in Callers :
        c # d /\ Did(c, "create") /\ Did(d, "create") /\ call[c].path = call[d].path
            => Between(call[c].path, c, d, None)

\* Two updates that replace one ETag both succeed only if that content was put
\* again between them: an update never overwrites one it did not see.
OneUpdater ==
    \A c, d \in Callers :
        ( /\ c # d /\ Did(c, "update") /\ Did(d, "update")
          /\ call[c].path = call[d].path /\ call[c].etag = call[d].etag
          /\ call[c].value # call[c].etag /\ call[d].value # call[d].etag )
            => Between(call[c].path, c, d, call[c].etag)
=============================================================================
