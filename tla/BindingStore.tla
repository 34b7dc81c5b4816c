---------------------------- MODULE BindingStore ----------------------------
(***************************************************************************)
(* The writes of container/src/binding_store.rs: put_opts, copy_opts and   *)
(* delete_stream as HTTP requests to the bridge of the supervising Worker  *)
(* (container/worker/index.ts, handleR2), which performs the R2 call and   *)
(* answers with a status.  The request, the R2 call and the response can   *)
(* each fail; the client sees only the status or a broken connection.      *)
(***************************************************************************)
EXTENDS PutCalls

VARIABLES
    headers,    \* headers[c]: the conditional headers of the request of c
    response    \* response[c]: the bridge's status on its way back, or 0

vars == <<store, headers, response>>

Promise == INSTANCE ConditionalStore

\* If-Match carries an ETag; If-None-Match is sent as "*" or not at all; no
\* request carries both.
Headers == {h \in [ifMatch: Values \cup {None}, ifNoneMatch: BOOLEAN] :
               h.ifMatch = None \/ ~h.ifNoneMatch}
NoHeaders == [ifMatch |-> None, ifNoneMatch |-> FALSE]

\* Every variable keeps its type: a request carries at most one condition, and
\* a response one of the statuses that handleR2 answers.
BindingTypeOK ==
    /\ TypeOK
    /\ headers \in [Callers -> Headers]
    /\ response \in [Callers -> {0, 200, 412, 500}]

BindingInit ==
    /\ Init
    /\ headers = [c \in Callers |-> NoHeaders]
    /\ response = [c \in Callers |-> 0]

----------------------------------------------------------------------------
\* MUTANT: the bridge ignores If-Match.
IgnoresIfMatch(p, h) == h.ifNoneMatch => objects[p] = None

\* bucket.put(key, body, { onlyIf: request.headers }).
OnlyIf(p, h) ==
    /\ h.ifMatch # None => objects[p] = h.ifMatch
    /\ h.ifNoneMatch => objects[p] = None

\* An update without an ETag is refused before anything is sent.
Unsupported(k) == k.mode = "update" /\ k.etag = None

\* MUTANT: If-None-Match is sent with every mode but an overwrite.
ConditionalIsCreate(k) ==
    [ifMatch     |-> IF k.mode = "update" THEN k.etag ELSE None,
     ifNoneMatch |-> k.mode # "overwrite"]

HeadersOf(k) ==
    [ifMatch     |-> IF k.mode = "update" THEN k.etag ELSE None,
     ifNoneMatch |-> k.mode = "create"]

PutOpts(c, k) ==
    /\ call[c] = None
    /\ call' = [call EXCEPT ![c] = k]
    /\ \/ /\ Unsupported(k)
          /\ Told(c, "NotSupported")
          /\ UNCHANGED <<request, headers>>
       \/ /\ ~Unsupported(k)
          /\ request' = [request EXCEPT ![c] = "sent"]
          /\ headers' = [headers EXCEPT ![c] = HeadersOf(k)]
          /\ UNCHANGED answer
    /\ UNCHANGED <<objects, response>>

\* copy_opts puts what it read at `from`; a missing source sends nothing.
CopyOpts(c, mode, from, to) ==
    /\ objects[from] # None
    /\ PutOpts(c, Put(mode, to, objects[from]))

DeleteStream(c, p) ==
    /\ call[c] = None
    /\ call' = [call EXCEPT ![c] = Deletion(p)]
    /\ request' = [request EXCEPT ![c] = "sent"]
    /\ UNCHANGED <<objects, answer, headers, response>>

Responds(c, status) == response' = [response EXCEPT ![c] = status]

\* The bridge has the whole body and calls R2: an object gives 200 (204 for a
\* delete), none gives 412.  When R2 throws after storing, 500.
HandlePut(c) ==
    /\ request[c] = "sent" /\ response[c] = 0
    /\ \/ /\ OnlyIf(call[c].path, headers[c])
          /\ objects' = [objects EXCEPT ![call[c].path] = call[c].value]
          /\ request' = [request EXCEPT ![c] = "stored"]
          /\ Responds(c, 200) \/ Responds(c, 500)
       \/ /\ ~OnlyIf(call[c].path, headers[c])
          /\ request' = [request EXCEPT ![c] = "refused"]
          /\ Responds(c, 412)
          /\ UNCHANGED objects
    /\ UNCHANGED <<call, answer, headers>>

\* The body breaks off, or R2 throws without storing.
HandleThrows(c) ==
    /\ request[c] = "sent" /\ response[c] = 0
    /\ Responds(c, 500)
    /\ UNCHANGED <<store, headers>>

\* check_response and put_result.
Succeeded(c) ==
    /\ answer[c] = None /\ response[c] = 200
    /\ Told(c, "ok")
    /\ UNCHANGED <<objects, call, request, headers, response>>

\* MUTANT: the bridge answers every failure with 412.
AnyFailureIsPrecondition(c) ==
    /\ answer[c] = None /\ response[c] \in {412, 500}
    /\ Told(c, Refusal(c))
    /\ UNCHANGED <<objects, call, request, headers, response>>

PreconditionFailed(c) ==
    /\ answer[c] = None /\ response[c] = 412
    /\ Told(c, Refusal(c))
    /\ UNCHANGED <<objects, call, request, headers, response>>

\* Status 500, or the connection breaks with the request anywhere on its way.
Failed(c) ==
    /\ answer[c] = None /\ call[c] # None
    /\ Told(c, "Generic")
    /\ UNCHANGED <<objects, call, request, headers, response>>

Quiescent ==
    /\ \A c \in Callers : answer[c] # None /\ (request[c] = "sent" => response[c] # 0)
    /\ UNCHANGED vars

Next ==
    \/ \E c \in Callers :
         \/ \E k \in Calls : PutOpts(c, k)
         \/ \E mode \in {"overwrite", "create"}, from, to \in Paths :
              CopyOpts(c, mode, from, to)
         \/ \E p \in Paths : DeleteStream(c, p)
         \/ HandlePut(c) \/ HandleThrows(c)
         \/ Succeeded(c) \/ PreconditionFailed(c) \/ Failed(c)
    \/ Quiescent

Spec == BindingInit /\ [][Next]_vars

\* The bridge keeps the promise of a conditional store, the one its README
\* names as SlateDB's "manifest fencing contract".
KeepsPromise == Promise!Spec
=============================================================================
