------------------------------- MODULE R2Store -------------------------------
(***************************************************************************)
(* The writes of durable-object/src/r2_store.rs: put_opts, copy_opts and   *)
(* delete_stream over the Worker's R2 binding.  R2 applies a request in    *)
(* one step; the caller resumes later, or the call fails with the request  *)
(* lost, refused or applied.                                               *)
(***************************************************************************)
EXTENDS PutCalls

VARIABLE only       \* only[c]: the conditional sent with the request of c

vars == <<store, only>>

Promise == INSTANCE ConditionalStore

Unconditional == [matches |-> None, absent |-> FALSE]

R2Init ==
    /\ Init
    /\ only = [c \in Callers |-> Unconditional]

----------------------------------------------------------------------------
\* R2 checks a conditional put against the stored object.
Satisfied(p, cond) ==
    /\ cond.matches # None => objects[p] = cond.matches
    /\ cond.absent => objects[p] = None

\* put_conditional refuses an update that carries a version but no ETag.
Unsupported(k) == k.mode = "update" /\ k.versioned /\ k.etag = None

\* MUTANT: a create that does not ask for the object's absence.
CreateUnchecked(k) ==
    [matches |-> IF k.mode = "update" THEN k.etag ELSE None, absent |-> FALSE]

\* put_conditional: the conditional of a mode.  An update without an ETag and
\* without a version gets the empty conditional.
PutConditional(k) ==
    [matches |-> IF k.mode = "update" THEN k.etag ELSE None,
     absent  |-> k.mode = "create"]

\* put_opts sends the request with its conditional.
PutOpts(c, k) ==
    /\ call' = [call EXCEPT ![c] = k]
    /\ \/ /\ Unsupported(k)
          /\ Told(c, "NotSupported")
          /\ UNCHANGED <<request, only>>
       \/ /\ ~Unsupported(k)
          /\ request' = [request EXCEPT ![c] = "sent"]
          /\ only' = [only EXCEPT ![c] = PutConditional(k)]
          /\ UNCHANGED answer
    /\ UNCHANGED objects

StartPut(c, k) ==
    /\ call[c] = None
    /\ PutOpts(c, k)

\* copy_opts puts what it read at `from`; `from` may change before the put is
\* applied.  A missing source answers NotFound and sends nothing.
CopyOpts(c, mode, from, to) ==
    /\ call[c] = None
    /\ objects[from] # None
    /\ PutOpts(c, Put(mode, to, objects[from]))

DeleteStream(c, p) ==
    /\ call[c] = None
    /\ call' = [call EXCEPT ![c] = Deletion(p)]
    /\ request' = [request EXCEPT ![c] = "sent"]
    /\ UNCHANGED <<objects, answer, only>>

\* R2 stores the object, or returns none because the conditional fails.
R2Applies(c) ==
    /\ request[c] = "sent"
    /\ \/ /\ Satisfied(call[c].path, only[c])
          /\ objects' = [objects EXCEPT ![call[c].path] = call[c].value]
          /\ request' = [request EXCEPT ![c] = "stored"]
       \/ /\ ~Satisfied(call[c].path, only[c])
          /\ request' = [request EXCEPT ![c] = "refused"]
          /\ UNCHANGED objects
    /\ UNCHANGED <<call, answer, only>>

\* The binding returns the object.
Stored(c) ==
    /\ answer[c] = None /\ request[c] = "stored"
    /\ Told(c, "ok")
    /\ UNCHANGED <<objects, call, request, only>>

\* MUTANT: a failure of the binding is reported like a failed precondition.
FailedAsRefused(c) ==
    /\ answer[c] = None /\ call[c] # None
    /\ Told(c, Refusal(c))
    /\ UNCHANGED <<objects, call, request, only>>

\* The binding returns no object: failed_put_precondition.
FailedPutPrecondition(c) ==
    /\ answer[c] = None /\ request[c] = "refused"
    /\ Told(c, Refusal(c))
    /\ UNCHANGED <<objects, call, request, only>>

\* The binding throws, with the request anywhere on its way.
Generic(c) ==
    /\ answer[c] = None /\ call[c] # None
    /\ Told(c, "Generic")
    /\ UNCHANGED <<objects, call, request, only>>

Quiescent ==
    /\ \A c \in Callers : answer[c] # None /\ request[c] # "sent"
    /\ UNCHANGED vars

Next ==
    \/ \E c \in Callers :
         \/ \E k \in Calls : StartPut(c, k)
         \/ \E mode \in {"overwrite", "create"}, from, to \in Paths :
              CopyOpts(c, mode, from, to)
         \/ \E p \in Paths : DeleteStream(c, p)
         \/ R2Applies(c) \/ Stored(c) \/ FailedPutPrecondition(c) \/ Generic(c)
    \/ Quiescent

Spec == R2Init /\ [][Next]_vars

\* The adapter keeps the promise of a conditional store: one atomic step per
\* call, and an answer that tells the truth about it.
KeepsPromise == Promise!Spec
=============================================================================
