----------------------------- MODULE StoresProofs -----------------------------
(***************************************************************************)
(* Both adapters implement ConditionalStore, for any number of callers,    *)
(* paths and contents, and ConditionalStore gives what fencing needs.      *)
(*                                                                         *)
(* The invariant of each adapter: a request on its way carries the         *)
(* conditions its call asks for; for the bridge also: a response tells the *)
(* truth about the request.                                                *)
(***************************************************************************)
EXTENDS Stores, TLAPS

----------------------------------------------------------------------------
(* The bridge. *)

SentInv(c) ==
    request[c] = "sent" =>
        /\ call[c] \in AllCalls
        /\ ~Unsupported(call[c])
        /\ headers[c] = IF call[c].mode = "delete" THEN NoHeaders ELSE HeadersOf(call[c])

ResponseInv(c) ==
    /\ call[c] = None => request[c] = "none" /\ response[c] = 0 /\ headers[c] = NoHeaders
    /\ response[c] = 200 => request[c] = "stored"
    /\ response[c] = 412 => request[c] = "refused"

IInv == BindingTypeOK /\ \A c \in Callers : SentInv(c) /\ ResponseInv(c)

\* The fields of a call.
LEMMA CallFields ==
    ASSUME NEW k \in AllCalls
    PROVE  /\ k.mode \in {"overwrite", "create", "update", "delete"}
           /\ k.path \in Paths /\ k.value \in Values \cup {None}
           /\ k.etag \in Values \cup {None}
           /\ k # None
<1>1. k \in Calls \/ \E p \in Paths : k = Deletion(p)
  BY DEF AllCalls
<1>2. k.etag \in Values \cup {None} /\ k.mode \in {"overwrite", "create", "update", "delete"}
      /\ k.path \in Paths /\ k.value \in Values \cup {None}
  BY <1>1 DEF Calls, Deletion, Put, Update, Etags
<1>3. QED BY <1>2, NoCallAssumption

\* The headers of a call are exactly the condition of its mode.
LEMMA HeadersAreCondition ==
    ASSUME NEW c \in Callers, BindingTypeOK, SentInv(c), request[c] = "sent"
    PROVE  OnlyIf(call[c].path, headers[c]) <=> Promise!Condition(c)
<1> DEFINE k == call[c]
<1>1. /\ k \in AllCalls /\ ~Unsupported(k)
      /\ headers[c] = IF k.mode = "delete" THEN NoHeaders ELSE HeadersOf(k)
  BY DEF SentInv
<1>2. k.mode \in {"overwrite", "create", "update", "delete"}
  BY <1>1, CallFields
<1>3. CASE k.mode = "create"
  <2>1. headers[c] = [ifMatch |-> None, ifNoneMatch |-> TRUE]
    BY <1>1, <1>3 DEF HeadersOf
  <2>2. headers[c].ifMatch = None /\ headers[c].ifNoneMatch
    BY <2>1
  <2>3. QED BY <1>3, <2>2 DEF OnlyIf, Promise!Condition
<1>4. CASE k.mode = "update"
  <2>1. headers[c] = [ifMatch |-> k.etag, ifNoneMatch |-> FALSE]
    BY <1>1, <1>4 DEF HeadersOf
  <2>2. headers[c].ifMatch = k.etag /\ ~headers[c].ifNoneMatch
    BY <2>1
  <2>3. k.etag # None
    BY <1>1, <1>4 DEF Unsupported
  <2>4. QED BY <1>4, <2>2, <2>3 DEF OnlyIf, Promise!Condition
<1>5. CASE k.mode \in {"overwrite", "delete"}
  <2>1. headers[c] = [ifMatch |-> None, ifNoneMatch |-> FALSE]
    BY <1>1, <1>5 DEF HeadersOf, NoHeaders
  <2>2. headers[c].ifMatch = None /\ ~headers[c].ifNoneMatch
    BY <2>1
  <2>3. QED BY <1>5, <2>2 DEF OnlyIf, Promise!Condition
<1>6. QED BY <1>2, <1>3, <1>4, <1>5

\* Nothing is under way in the initial states.
LEMMA InitInv == BindingInit => IInv
<1> SUFFICES ASSUME BindingInit PROVE IInv
  OBVIOUS
<1>1. BindingTypeOK
  BY DEF BindingInit, Init, BindingTypeOK, TypeOK, Headers, NoHeaders, Requests
<1>2. QED BY <1>1 DEF BindingInit, Init, IInv, SentInv, ResponseInv

----------------------------------------------------------------------------
\* One step of a caller or of the bridge on its behalf.
Step(c) ==
    \/ \E k \in Calls : PutOpts(c, k)
    \/ \E mode \in {"overwrite", "create"}, from, to \in Paths : CopyOpts(c, mode, from, to)
    \/ \E p \in Paths : DeleteStream(c, p)
    \/ HandlePut(c) \/ HandleThrows(c)
    \/ Succeeded(c) \/ PreconditionFailed(c) \/ Failed(c)

\* A copy is the put of a content that exists.
LEMMA CopyIsPut ==
    ASSUME BindingTypeOK, NEW c \in Callers, NEW mode \in {"overwrite", "create"},
           NEW from \in Paths, NEW to \in Paths, CopyOpts(c, mode, from, to)
    PROVE  \E k \in Calls : PutOpts(c, k)
<1>1. objects[from] \in Values
  BY DEF CopyOpts, BindingTypeOK, TypeOK
<1>2. Put(mode, to, objects[from]) \in Calls
  BY <1>1 DEF Calls
<1>3. QED BY <1>2 DEF CopyOpts

\* A call that is made keeps the invariant.
LEMMA PutKeeps ==
    ASSUME IInv, NEW c \in Callers, NEW k \in Calls, PutOpts(c, k)
    PROVE  IInv'
<1>0. BindingTypeOK /\ k \in AllCalls /\ k # None
  BY CallFields DEF IInv, AllCalls
<1>1. k.etag \in Values \cup {None} /\ k.mode # "delete"
  BY DEF Calls, Put, Update, Etags
<1>2. HeadersOf(k) \in Headers
  BY <1>1 DEF HeadersOf, Headers
<1>3. BindingTypeOK'
  BY <1>0, <1>2 DEF PutOpts, BindingTypeOK, TypeOK, Told, Answers, Refusals, Requests
<1>4. ASSUME NEW d \in Callers PROVE SentInv(d)' /\ ResponseInv(d)'
  <2>0. SentInv(d) /\ ResponseInv(d)
    BY DEF IInv
  <2>1. CASE d # c
    <3>1. /\ call'[d] = call[d] /\ request'[d] = request[d]
          /\ headers'[d] = headers[d] /\ response'[d] = response[d]
      BY <1>0, <2>1 DEF PutOpts, BindingTypeOK, TypeOK
    <3>2. QED BY <2>0, <3>1 DEF SentInv, ResponseInv
  <2>2. CASE d = c
    <3>1. /\ call'[c] = k /\ response'[c] = 0
          /\ request'[c] \in {"none", "sent"}
          /\ request'[c] = "sent" => ~Unsupported(k) /\ headers'[c] = HeadersOf(k)
      BY <1>0, <2>0, <2>2 DEF PutOpts, BindingTypeOK, TypeOK, ResponseInv
    <3>2. QED BY <1>0, <1>1, <2>2, <3>1 DEF SentInv, ResponseInv
  <2>3. QED BY <2>1, <2>2
<1>5. QED BY <1>3, <1>4 DEF IInv

\* So does a delete.
LEMMA DeleteKeeps ==
    ASSUME IInv, NEW c \in Callers, NEW p \in Paths, DeleteStream(c, p)
    PROVE  IInv'
<1>0. BindingTypeOK /\ Deletion(p) \in AllCalls /\ Deletion(p) # None
      /\ Deletion(p).mode = "delete"
  BY CallFields DEF IInv, AllCalls, Deletion
<1>1. BindingTypeOK'
  BY <1>0 DEF DeleteStream, BindingTypeOK, TypeOK, Requests
<1>2. ASSUME NEW d \in Callers PROVE SentInv(d)' /\ ResponseInv(d)'
  <2>0. SentInv(d) /\ ResponseInv(d)
    BY DEF IInv
  <2>1. CASE d # c
    <3>1. /\ call'[d] = call[d] /\ request'[d] = request[d]
          /\ headers'[d] = headers[d] /\ response'[d] = response[d]
      BY <1>0, <2>1 DEF DeleteStream, BindingTypeOK, TypeOK
    <3>2. QED BY <2>0, <3>1 DEF SentInv, ResponseInv
  <2>2. CASE d = c
    <3>1. /\ call'[c] = Deletion(p) /\ response'[c] = 0
          /\ request'[c] = "sent" /\ headers'[c] = NoHeaders
      BY <1>0, <2>0, <2>2 DEF DeleteStream, BindingTypeOK, TypeOK, ResponseInv
    <3>2. QED BY <1>0, <2>2, <3>1 DEF SentInv, ResponseInv, Unsupported
  <2>3. QED BY <2>1, <2>2
<1>3. QED BY <1>1, <1>2 DEF IInv

\* The bridge and the client's answers keep the invariant.
LEMMA HandleKeeps ==
    ASSUME IInv, NEW c \in Callers, HandlePut(c) \/ HandleThrows(c)
    PROVE  IInv'
<1>0. BindingTypeOK /\ SentInv(c) /\ ResponseInv(c) /\ request[c] = "sent"
      /\ call[c] \in AllCalls /\ call[c] # None
  BY CallFields DEF IInv, HandlePut, HandleThrows, SentInv
<1>1. call[c].value \in Values \cup {None} /\ call[c].path \in Paths
  BY <1>0, CallFields
<1>2. BindingTypeOK'
  BY <1>0, <1>1
     DEF HandlePut, HandleThrows, Responds, BindingTypeOK, TypeOK, Requests, store
<1>3. ASSUME NEW d \in Callers PROVE SentInv(d)' /\ ResponseInv(d)'
  <2>0. SentInv(d) /\ ResponseInv(d)
    BY DEF IInv
  <2>1. call' = call /\ headers' = headers
    BY DEF HandlePut, HandleThrows, store
  <2>2. CASE d # c
    <3>1. request'[d] = request[d] /\ response'[d] = response[d]
      BY <1>0, <2>2 DEF HandlePut, HandleThrows, Responds, BindingTypeOK, TypeOK, store
    <3>2. QED BY <2>0, <2>1, <3>1 DEF SentInv, ResponseInv
  <2>3. CASE d = c
    <3>1. \/ request'[c] = "stored" /\ response'[c] \in {200, 500}
          \/ request'[c] = "refused" /\ response'[c] = 412
          \/ request'[c] = "sent" /\ response'[c] = 500
      BY <1>0, <2>3 DEF HandlePut, HandleThrows, Responds, BindingTypeOK, TypeOK, store
    <3>2. QED BY <1>0, <2>0, <2>1, <2>3, <3>1 DEF SentInv, ResponseInv
  <2>4. QED BY <2>2, <2>3
<1>4. QED BY <1>2, <1>3 DEF IInv

\* So do the steps that carry an answer back.
LEMMA AnswerKeeps ==
    ASSUME IInv, NEW c \in Callers,
           Succeeded(c) \/ PreconditionFailed(c) \/ Failed(c)
    PROVE  IInv'
<1>1. UNCHANGED <<objects, call, request, headers, response>>
  BY DEF Succeeded, PreconditionFailed, Failed
<1>2. BindingTypeOK'
  BY <1>1 DEF IInv, BindingTypeOK, TypeOK, Succeeded, PreconditionFailed, Failed,
              Told, Answers, Refusals, Refusal
<1>3. ASSUME NEW d \in Callers PROVE SentInv(d)' /\ ResponseInv(d)'
  BY <1>1 DEF IInv, SentInv, ResponseInv
<1>4. QED BY <1>2, <1>3 DEF IInv

\* Each step of a caller keeps it.
LEMMA StepKeeps ==
    ASSUME IInv, NEW c \in Callers, Step(c)
    PROVE  IInv'
BY PutKeeps, CopyIsPut, DeleteKeeps, HandleKeeps, AnswerKeeps DEF Step, IInv

\* Every step keeps the inductive invariant.
LEMMA NextInv == IInv /\ [Next]_vars => IInv'
<1> SUFFICES ASSUME IInv, [Next]_vars PROVE IInv'
  OBVIOUS
<1>1. CASE \E c \in Callers : Step(c)
  BY <1>1, StepKeeps
<1>2. CASE UNCHANGED vars
  BY <1>2 DEF vars, store, IInv, BindingTypeOK, TypeOK, SentInv, ResponseInv
<1>3. QED BY <1>1, <1>2 DEF Next, Step, Quiescent

\* The inductive invariant holds in every reachable state.
THEOREM Invariance == Spec => []IInv
BY InitInv, NextInv, PTL DEF Spec

----------------------------------------------------------------------------
\* Each step is a step of the promise, or invisible to it.
LEMMA InitPromise == BindingInit => Promise!Init
BY DEF BindingInit, Init, Promise!Init

\* A put that R2 applies is one of the conditional store.
LEMMA PutPromised ==
    ASSUME NEW c \in Callers, NEW k \in Calls, PutOpts(c, k)
    PROVE  Promise!Next
<1>1. k \in Promise!AllCalls
  BY DEF Calls, Put, Update, Etags, Promise!AllCalls, Promise!Calls, Promise!Put,
         Promise!Update, Promise!Etags
<1>2. Promise!Call(c, k)
  BY DEF PutOpts, Unsupported, Told, Promise!Call, Promise!Told
<1>3. QED BY <1>1, <1>2 DEF Promise!Next

\* So is a delete.
LEMMA DeletePromised ==
    ASSUME NEW c \in Callers, NEW p \in Paths, DeleteStream(c, p)
    PROVE  Promise!Next
<1>1. Deletion(p) \in Promise!AllCalls
  BY DEF Deletion, Promise!AllCalls, Promise!Deletion
<1>2. Promise!Call(c, Deletion(p))
  BY DEF DeleteStream, Promise!Call
<1>3. QED BY <1>1, <1>2 DEF Promise!Next

\* The bridge performs the request in the one step the promise allows.
LEMMA HandlePromised ==
    ASSUME IInv, NEW c \in Callers, HandlePut(c)
    PROVE  Promise!Next
<1>1. OnlyIf(call[c].path, headers[c]) <=> Promise!Condition(c)
  BY HeadersAreCondition DEF IInv, HandlePut
<1>2. Promise!Apply(c)
  BY <1>1 DEF HandlePut, Promise!Apply
<1>3. QED BY <1>2 DEF Promise!Next

\* What the client reads from a status is true of its request.
LEMMA AnswerPromised ==
    ASSUME IInv, NEW c \in Callers,
           Succeeded(c) \/ PreconditionFailed(c) \/ Failed(c)
    PROVE  Promise!Next
<1>1. ResponseInv(c)
  BY DEF IInv
<1>2. call[c] # None
  BY <1>1 DEF ResponseInv, Succeeded, PreconditionFailed, Failed
<1>3. Promise!Answer(c)
  BY <1>1, <1>2 DEF ResponseInv, Succeeded, PreconditionFailed, Failed, Told, Refusal,
                    Promise!Answer, Promise!Told, Promise!Refusal
<1>4. QED BY <1>3 DEF Promise!Next

\* Every step of the bridge is one of the conditional store, or leaves its variables alone.
LEMMA NextPromised == IInv /\ [Next]_vars => [Promise!Next]_Promise!store
<1> SUFFICES ASSUME IInv, [Next]_vars PROVE [Promise!Next]_Promise!store
  OBVIOUS
<1>1. ASSUME NEW c \in Callers, Step(c) PROVE [Promise!Next]_Promise!store
  <2>1. CASE HandleThrows(c)
    BY <2>1 DEF HandleThrows, store, Promise!store
  <2>2. CASE ~HandleThrows(c)
    BY <1>1, <2>2, PutPromised, CopyIsPut, DeletePromised, HandlePromised, AnswerPromised
       DEF Step, IInv
  <2>3. QED BY <2>1, <2>2
<1>2. CASE UNCHANGED vars
  BY <1>2 DEF vars, store, Promise!store
<1>3. QED BY <1>1, <1>2 DEF Next, Step, Quiescent

\* The bridge and its client keep the promise of a conditional store, whatever
\* breaks between them (container/worker/index.ts handleR2 and
\* container/src/binding_store.rs).
THEOREM BridgeKeepsPromise == Spec => KeepsPromise
BY InitPromise, NextPromised, Invariance, PTL DEF Spec, KeepsPromise, Promise!Spec

----------------------------------------------------------------------------
(* The Worker. *)

ConditionalInv(c) ==
    /\ call[c] = None => request[c] = "none" /\ only[c] = Worker!Unconditional
    /\ request[c] = "sent" =>
         /\ call[c] \in AllCalls
         /\ only[c] = IF call[c].mode = "delete" THEN Worker!Unconditional
                      ELSE Worker!PutConditional(call[c])
    /\ NamesETag(call[c])

WInv ==
    /\ BindingTypeOK
    /\ only \in [Callers -> [matches: Values \cup {None}, absent: BOOLEAN]]
    /\ \A c \in Callers : ConditionalInv(c)

\* What R2Store takes from PutCalls is what BindingStore takes from it.
LEMMA SameCalls ==
    /\ Worker!Calls = Calls
    /\ Promise!AllCalls = AllCalls
    /\ \A p \in Paths : Worker!Deletion(p) = Deletion(p)
    /\ \A mode, p, v : Worker!Put(mode, p, v) = Put(mode, p, v)
<1>1. \A mode, p, v : Worker!Put(mode, p, v) = Put(mode, p, v)
  BY DEF Worker!Put, Put
<1>2. \A p \in Paths : Worker!Deletion(p) = Deletion(p)
  BY DEF Worker!Deletion, Deletion
<1>3. Worker!Calls = Calls
  BY DEF Worker!Calls, Worker!Put, Worker!Update, Worker!Etags, Calls, Put, Update, Etags
<1>4. Promise!AllCalls = AllCalls
  BY DEF AllCalls, Calls, Put, Update, Etags, Deletion, Promise!AllCalls,
         Promise!Calls, Promise!Put, Promise!Update, Promise!Etags, Promise!Deletion
<1>5. QED BY <1>1, <1>2, <1>3, <1>4

\* Nothing is under way in the initial states.
LEMMA InitWorker == BothInit => WInv
<1> SUFFICES ASSUME BothInit PROVE WInv
  OBVIOUS
<1>1. BindingTypeOK
  BY InitInv DEF BothInit, IInv
<1>2. /\ call = [c \in Callers |-> None] /\ request = [c \in Callers |-> "none"]
      /\ only = [c \in Callers |-> Worker!Unconditional]
  BY DEF BothInit, BindingInit, Init, Worker!R2Init
<1>3. QED BY <1>1, <1>2 DEF WInv, ConditionalInv, NamesETag, Worker!Unconditional

\* A conditional is exactly the condition of its call's mode.
LEMMA ConditionalIsCondition ==
    ASSUME WInv, NEW c \in Callers, request[c] = "sent"
    PROVE  /\ call[c] \in AllCalls
           /\ Worker!Satisfied(call[c].path, only[c]) <=> Promise!Condition(c)
<1> DEFINE k == call[c]
<1>1. /\ k \in AllCalls /\ k # None /\ NamesETag(k)
      /\ only[c] = IF k.mode = "delete" THEN Worker!Unconditional
                   ELSE Worker!PutConditional(k)
      /\ k.mode \in {"overwrite", "create", "update", "delete"}
  BY CallFields DEF WInv, ConditionalInv
<1>2. CASE k.mode = "create"
  <2>1. only[c] = [matches |-> None, absent |-> TRUE]
    BY <1>1, <1>2 DEF Worker!PutConditional
  <2>2. only[c].matches = None /\ only[c].absent
    BY <2>1
  <2>3. QED BY <1>1, <1>2, <2>2 DEF Worker!Satisfied, Promise!Condition
<1>3. CASE k.mode = "update"
  <2>1. only[c] = [matches |-> k.etag, absent |-> FALSE]
    BY <1>1, <1>3 DEF Worker!PutConditional
  <2>2. only[c].matches = k.etag /\ ~only[c].absent
    BY <2>1
  <2>3. k.etag # None
    BY <1>1, <1>3 DEF NamesETag
  <2>4. QED BY <1>1, <1>3, <2>2, <2>3 DEF Worker!Satisfied, Promise!Condition
<1>4. CASE k.mode \in {"overwrite", "delete"}
  <2>1. only[c] = [matches |-> None, absent |-> FALSE]
    BY <1>1, <1>4 DEF Worker!PutConditional, Worker!Unconditional
  <2>2. only[c].matches = None /\ ~only[c].absent
    BY <2>1
  <2>3. QED BY <1>1, <1>4, <2>2 DEF Worker!Satisfied, Promise!Condition
<1>5. QED BY <1>1, <1>2, <1>3, <1>4

\* One step of a caller of the Worker's binding, or of R2 on its behalf.
WorkerStep(c) ==
    \/ \E k \in Calls : Worker!StartPut(c, k)
    \/ \E p \in Paths : Worker!DeleteStream(c, p)
    \/ Worker!R2Applies(c)
    \/ Worker!Stored(c) \/ Worker!FailedPutPrecondition(c) \/ Worker!Generic(c)

\* A copy is the put of a content that exists.
LEMMA WorkerSteps ==
    ASSUME BindingTypeOK, Worker!Next
    PROVE  (\E c \in Callers : WorkerStep(c)) \/ UNCHANGED <<store, only>>
<1>1. ASSUME NEW c \in Callers, NEW mode \in {"overwrite", "create"}, NEW from \in Paths,
             NEW to \in Paths, Worker!CopyOpts(c, mode, from, to)
      PROVE  WorkerStep(c)
  <2>1. objects[from] \in Values
    BY <1>1 DEF Worker!CopyOpts, BindingTypeOK, TypeOK
  <2>2. Put(mode, to, objects[from]) \in Calls
    BY <2>1 DEF Calls
  <2>3. Worker!StartPut(c, Put(mode, to, objects[from]))
    BY <1>1, SameCalls DEF Worker!CopyOpts, Worker!StartPut
  <2>4. QED BY <2>2, <2>3 DEF WorkerStep
<1>2. CASE Worker!Quiescent
  BY <1>2 DEF Worker!Quiescent, Worker!vars, Worker!store, store
<1>3. QED BY <1>1, <1>2, SameCalls DEF Worker!Next, WorkerStep

\* A step of one caller leaves the others' requests alone.
LEMMA OthersKept ==
    ASSUME WInv, NEW c \in Callers,
           \A d \in Callers : d # c =>
               call'[d] = call[d] /\ request'[d] = request[d] /\ only'[d] = only[d],
           ConditionalInv(c)', BindingTypeOK',
           only' \in [Callers -> [matches: Values \cup {None}, absent: BOOLEAN]]
    PROVE  WInv'
<1>1. ASSUME NEW d \in Callers, d # c PROVE ConditionalInv(d)'
  BY <1>1 DEF WInv, ConditionalInv, NamesETag
<1>2. QED BY <1>1 DEF WInv

\* put_opts keeps the invariant, and is a call of the promise.
LEMMA StartPutKeeps ==
    ASSUME WInv, NEW c \in Callers, NEW k \in Calls, Worker!StartPut(c, k),
           NamesETag(k), UNCHANGED <<headers, response>>
    PROVE  WInv' /\ Promise!Next
<1>1. /\ k \in AllCalls /\ k # None /\ k.etag \in Values \cup {None}
      /\ k.mode \in {"overwrite", "create", "update"}
  <2>1. k \in AllCalls
    BY DEF AllCalls
  <2>2. k.mode # "delete"
    BY DEF Calls, Put, Update
  <2>3. QED BY <2>1, <2>2, CallFields
<1>2. ~Worker!Unsupported(k)
  BY <1>1 DEF Worker!Unsupported, NamesETag
<1>3. /\ call[c] = None /\ call' = [call EXCEPT ![c] = k]
      /\ request' = [request EXCEPT ![c] = "sent"]
      /\ only' = [only EXCEPT ![c] = Worker!PutConditional(k)]
      /\ UNCHANGED <<objects, answer>>
  BY <1>2 DEF Worker!StartPut, Worker!PutOpts
<1>4. Worker!PutConditional(k) \in [matches: Values \cup {None}, absent: BOOLEAN]
  BY <1>1 DEF Worker!PutConditional
<1>5. /\ only' \in [Callers -> [matches: Values \cup {None}, absent: BOOLEAN]]
      /\ BindingTypeOK'
  BY <1>1, <1>3, <1>4 DEF WInv, BindingTypeOK, TypeOK, Requests
<1>6. ConditionalInv(c)'
  <2>1. call'[c] = k /\ only'[c] = Worker!PutConditional(k)
    BY <1>3 DEF WInv, BindingTypeOK, TypeOK
  <2>2. QED BY <1>1, <2>1 DEF ConditionalInv, NamesETag
<1>7. WInv'
  BY <1>3, <1>5, <1>6, OthersKept DEF WInv, BindingTypeOK, TypeOK
<1>8. Promise!Call(c, k)
  BY <1>3 DEF Promise!Call
<1>9. QED BY <1>1, <1>7, <1>8, SameCalls DEF Promise!Next

\* So does delete_stream.
LEMMA WorkerDeleteKeeps ==
    ASSUME WInv, NEW c \in Callers, NEW p \in Paths, Worker!DeleteStream(c, p),
           UNCHANGED <<headers, response>>
    PROVE  WInv' /\ Promise!Next
<1>1. /\ Deletion(p) \in AllCalls /\ Deletion(p) # None
      /\ Deletion(p).mode = "delete" /\ Worker!Deletion(p) = Deletion(p)
  BY CallFields, SameCalls DEF AllCalls, Deletion
<1>2. /\ call[c] = None /\ call' = [call EXCEPT ![c] = Deletion(p)]
      /\ request' = [request EXCEPT ![c] = "sent"]
      /\ UNCHANGED <<objects, answer, only>>
  BY <1>1 DEF Worker!DeleteStream
<1>3. BindingTypeOK'
  BY <1>1, <1>2 DEF WInv, BindingTypeOK, TypeOK, Requests
<1>4. ConditionalInv(c)'
  <2>1. call'[c] = Deletion(p) /\ only'[c] = Worker!Unconditional
    BY <1>2 DEF WInv, ConditionalInv, BindingTypeOK, TypeOK
  <2>2. QED BY <1>1, <2>1 DEF ConditionalInv, NamesETag
<1>5. WInv'
  BY <1>2, <1>3, <1>4, OthersKept DEF WInv, BindingTypeOK, TypeOK
<1>6. Promise!Call(c, Deletion(p))
  BY <1>2 DEF Promise!Call
<1>7. QED BY <1>1, <1>5, <1>6, SameCalls DEF Promise!Next

\* R2 applies a request in the one step the promise allows.
LEMMA AppliesKeeps ==
    ASSUME WInv, NEW c \in Callers, Worker!R2Applies(c), UNCHANGED <<headers, response>>
    PROVE  WInv' /\ Promise!Next
<1>1. /\ request[c] = "sent" /\ call[c] \in AllCalls /\ UNCHANGED <<call, answer, only>>
      /\ Worker!Satisfied(call[c].path, only[c]) <=> Promise!Condition(c)
  BY ConditionalIsCondition DEF Worker!R2Applies
<1>2. call[c].path \in Paths /\ call[c].value \in Values \cup {None}
  BY <1>1, CallFields
<1>3. /\ request' \in {[request EXCEPT ![c] = "stored"], [request EXCEPT ![c] = "refused"]}
      /\ objects' \in {objects, [objects EXCEPT ![call[c].path] = call[c].value]}
  BY DEF Worker!R2Applies
<1>4. BindingTypeOK'
  <2>1. objects' \in [Paths -> Values \cup {None}] /\ request' \in [Callers -> Requests]
    BY <1>2, <1>3 DEF WInv, BindingTypeOK, TypeOK, Requests
  <2>2. QED BY <1>1, <2>1 DEF WInv, BindingTypeOK, TypeOK
<1>5. ConditionalInv(c)'
  <2>1. request'[c] \in {"stored", "refused"}
    BY <1>3 DEF WInv, BindingTypeOK, TypeOK
  <2>2. call[c] # None
    BY <1>1, CallFields
  <2>3. QED BY <1>1, <2>1, <2>2 DEF WInv, ConditionalInv, NamesETag
<1>6. WInv'
  BY <1>1, <1>3, <1>4, <1>5, OthersKept DEF WInv, BindingTypeOK, TypeOK
<1>7. Promise!Apply(c)
  BY <1>1 DEF Worker!R2Applies, Promise!Apply
<1>8. QED BY <1>6, <1>7 DEF Promise!Next

\* What the binding returns, or throws, is what the promise lets a caller be told.
LEMMA ReturnsKeeps ==
    ASSUME WInv, NEW c \in Callers, UNCHANGED <<headers, response>>,
           Worker!Stored(c) \/ Worker!FailedPutPrecondition(c) \/ Worker!Generic(c)
    PROVE  WInv' /\ Promise!Next
<1>1. /\ UNCHANGED <<objects, call, request, only>> /\ answer[c] = None
      /\ \/ request[c] = "stored" /\ answer' = [answer EXCEPT ![c] = "ok"]
         \/ request[c] = "refused" /\ answer' = [answer EXCEPT ![c] = Refusal(c)]
         \/ call[c] # None /\ answer' = [answer EXCEPT ![c] = "Generic"]
  BY DEF Worker!Stored, Worker!FailedPutPrecondition, Worker!Generic, Worker!Told,
         Worker!Refusal, Refusal
<1>2. call[c] # None
  BY <1>1 DEF WInv, ConditionalInv
<1>3. BindingTypeOK'
  <2>1. \E a \in Answers : answer' = [answer EXCEPT ![c] = a]
    BY <1>1 DEF Answers, Refusals, Refusal
  <2>2. answer' \in [Callers -> Answers \cup {None}]
    BY <2>1 DEF WInv, BindingTypeOK, TypeOK
  <2>3. TypeOK'
    BY <1>1, <2>2 DEF WInv, BindingTypeOK, TypeOK
  <2>4. QED BY <1>1, <2>3 DEF WInv, BindingTypeOK
<1>4. WInv'
  BY <1>1, <1>3 DEF WInv, ConditionalInv, NamesETag
<1>5. Promise!Answer(c)
  BY <1>1, <1>2 DEF Promise!Answer, Promise!Told, Promise!Refusal, Refusal
<1>6. QED BY <1>4, <1>5 DEF Promise!Next

\* Every step of the Worker keeps the invariant, and the promise.
LEMMA WorkerKeeps ==
    ASSUME WInv, Worker!Next, \A c \in Callers : NamesETag(call'[c]),
           UNCHANGED <<headers, response>>
    PROVE  WInv' /\ [Promise!Next]_Promise!store
<1>0. BindingTypeOK
  BY DEF WInv
<1>1. CASE UNCHANGED <<store, only>>
  <2>1. UNCHANGED <<objects, call, request, answer>>
    BY <1>1 DEF store
  <2>2. QED BY <1>1, <2>1
            DEF WInv, ConditionalInv, NamesETag, BindingTypeOK, TypeOK, Promise!store
<1>2. ASSUME NEW c \in Callers, WorkerStep(c) PROVE WInv' /\ Promise!Next
  <2>1. CASE \E k \in Calls : Worker!StartPut(c, k)
    <3>1. PICK k \in Calls : Worker!StartPut(c, k)
      BY <2>1
    <3>2. call'[c] = k
      BY <1>0, <3>1 DEF Worker!StartPut, Worker!PutOpts, BindingTypeOK, TypeOK
    <3>3. NamesETag(k)
      BY <3>2
    <3>4. QED BY <3>1, <3>3, StartPutKeeps
  <2>2. CASE \E p \in Paths : Worker!DeleteStream(c, p)
    BY <2>2, WorkerDeleteKeeps
  <2>3. CASE Worker!R2Applies(c)
    BY <2>3, AppliesKeeps
  <2>4. CASE Worker!Stored(c) \/ Worker!FailedPutPrecondition(c) \/ Worker!Generic(c)
    BY <2>4, ReturnsKeeps
  <2>5. QED BY <1>2, <2>1, <2>2, <2>3, <2>4 DEF WorkerStep
<1>3. QED BY <1>0, <1>1, <1>2, WorkerSteps

----------------------------------------------------------------------------
(* Either. *)

BothInv ==
    \/ adapter = "bridge" /\ IInv
    \/ adapter = "worker" /\ WInv

\* Whichever adapter is deployed, its invariant holds at first, and is kept by
\* steps of the promise.
LEMMA BothKeep ==
    /\ BothInit => BothInv /\ Promise!Init
    /\ BothInv /\ [BothNext]_<<vars, adapter, only, applied>>
         => BothInv' /\ [Promise!Next]_Promise!store
<1>1. BothInit => BothInv /\ Promise!Init
  BY InitInv, InitWorker, InitPromise DEF BothInit, BothInv
<1>2. ASSUME BothInv, [BothNext]_<<vars, adapter, only, applied>>
      PROVE  BothInv' /\ [Promise!Next]_Promise!store
  <2>1. CASE adapter = "bridge" /\ IInv /\ [Next]_vars /\ UNCHANGED adapter
    BY <2>1, NextInv, NextPromised DEF BothInv
  <2>2. CASE /\ adapter = "worker" /\ WInv /\ Worker!Next
             /\ \A c \in Callers : NamesETag(call'[c])
             /\ UNCHANGED <<adapter, headers, response>>
    BY <2>2, WorkerKeeps DEF BothInv
  <2>3. CASE adapter = "worker" /\ WInv /\ UNCHANGED <<vars, adapter, only, applied>>
    <3>1. UNCHANGED <<objects, call, request, answer, headers, response, only, adapter>>
      BY <2>3 DEF vars, store
    <3>2. QED BY <2>3, <3>1 DEF BothInv, WInv, ConditionalInv, NamesETag,
                                BindingTypeOK, TypeOK, Promise!store
  <2>4. QED BY <1>2, <2>1, <2>2, <2>3 DEF BothInv, BothNext
<1>3. QED BY <1>1, <1>2

\* The adapter's invariant holds in every reachable state.
LEMMA BothInvariance == BothSpec => []BothInv
BY BothKeep, PTL DEF BothSpec

\* Every variable of the adapters keeps its type: a response of the bridge is
\* always one of the statuses handleR2 answers.
THEOREM BindingTypeCorrect == BothSpec => []BindingTypeOK
<1>1. BothInv => BindingTypeOK
  BY DEF BothInv, IInv, WInv
<1>2. QED BY <1>1, BothInvariance, PTL

\* Both adapters keep the promise of a conditional store, whatever breaks
\* between the caller and R2: the Worker's binding (durable-object/src/
\* r2_store.rs) for callers that name the ETag of an update, and the bridge
\* (container/worker/index.ts handleR2, container/src/binding_store.rs).
THEOREM StoresKeepPromise == BothSpec => KeepsPromise
BY BothKeep, BothInvariance, PTL DEF BothSpec, KeepsPromise, Promise!Spec

----------------------------------------------------------------------------
(***************************************************************************)
(* What SlateDB's fencing needs of its object store, for any number of     *)
(* callers, paths and contents: one creator, one updater of an ETag, and   *)
(* refusals that are final.  All of it follows from the promise and from   *)
(* the order in which R2 applied the requests.                             *)
(***************************************************************************)
AnswerInv(c) ==
    /\ call[c] = None => request[c] = "none" /\ answer[c] = None
    /\ answer[c] = "ok" => request[c] = "stored"
    /\ answer[c] \in Refusals => request[c] \notin {"sent", "stored"}

\* What p held before its i-th request was applied.
Before(p, i) == IF i = 1 THEN None ELSE call[applied[p][i - 1]].value

\* The request of c, the i-th of p, found what its mode asks for.
Found(p, i, c) ==
    /\ c \in Callers /\ request[c] = "stored" /\ call[c].path = p
    /\ call[c].mode = "create" => Before(p, i) = None /\ call[c].value # None
    /\ call[c].mode = "update" => Before(p, i) = call[c].etag

\* The requests applied are those stored, each of which found what it asked for
\* in what the one before it left; the last one's is there now.
AppliedInv ==
    /\ applied \in [Paths -> Seq(Callers)]
    /\ \A c \in Callers : request[c] = "stored" =>
         /\ call[c].path \in Paths
         /\ \E i \in 1..Len(applied[call[c].path]) : applied[call[c].path][i] = c
    /\ \A p \in Paths :
         /\ objects[p] = Before(p, Len(applied[p]) + 1)
         /\ \A i \in 1..Len(applied[p]) : Found(p, i, applied[p][i])

FenceInv == AppliedInv /\ \A c \in Callers : AnswerInv(c)

\* A step that stores nothing leaves the requests applied alone.
LEMMA NothingStored ==
    ASSUME AppliedInv, UNCHANGED objects, Records \/ UNCHANGED applied,
           \A c \in Callers : request'[c] = "stored" <=> request[c] = "stored",
           \A c \in Callers : request[c] = "stored" => call'[c] = call[c]
    PROVE  AppliedInv'
<1>1. \A p : NowApplied(p) = {}
  BY DEF NowApplied
<1>2. applied' = applied
  <2>1. CASE Records
    <3>1. applied' = [p \in Paths |-> applied[p]]
      BY <1>1, <2>1 DEF Records
    <3>2. QED BY <3>1 DEF AppliedInv
  <2>2. QED BY <2>1
<1>3. ASSUME NEW p \in Paths, NEW i \in 1..Len(applied[p])
      PROVE  call'[applied[p][i]] = call[applied[p][i]] /\ Found(p, i, applied[p][i])
  BY <1>3 DEF AppliedInv, Found
<1>4. ASSUME NEW p \in Paths, NEW i \in 1..(Len(applied[p]) + 1)
      PROVE  Before(p, i)' = Before(p, i)
  <2>1. i # 1 => i - 1 \in 1..Len(applied[p])
    BY <1>4 DEF AppliedInv
  <2>2. QED BY <1>2, <1>3, <2>1 DEF Before
<1>5. ASSUME NEW p \in Paths, NEW i \in 1..Len(applied[p])
      PROVE  Found(p, i, applied[p][i])'
  <2>1. i \in 1..(Len(applied[p]) + 1)
    BY DEF AppliedInv
  <2>2. QED BY <1>2, <1>3, <1>4, <2>1 DEF Found
<1>6. ASSUME NEW p \in Paths
      PROVE  objects'[p] = Before(p, Len(applied[p]) + 1)'
  <2>1. Len(applied[p]) + 1 \in 1..(Len(applied[p]) + 1)
    BY DEF AppliedInv
  <2>2. objects[p] = Before(p, Len(applied[p]) + 1)
    BY DEF AppliedInv
  <2>3. Before(p, Len(applied[p]) + 1)' = Before(p, Len(applied[p]) + 1)
    BY <1>2, <1>4, <2>1
  <2>4. QED BY <2>2, <2>3
<1>7. QED BY <1>2, <1>5, <1>6 DEF AppliedInv

\* A put that is stored comes after all others of its path, and its condition
\* held in what they left.
LEMMA PutStored ==
    ASSUME TypeOK, AppliedInv, NEW c \in Callers, NEW p0 \in Paths,
           request[c] = "sent", call[c].path = p0, Promise!Condition(c),
           call[c].mode = "create" => call[c].value # None,
           objects' = [objects EXCEPT ![p0] = call[c].value],
           request' = [request EXCEPT ![c] = "stored"],
           UNCHANGED call, Records
    PROVE  AppliedInv'
<1>1. /\ request'[c] = "stored"
      /\ \A d \in Callers : d # c => request'[d] = request[d]
      /\ objects'[p0] = call[c].value
      /\ \A p \in Paths : p # p0 => objects'[p] = objects[p]
  BY DEF TypeOK
<1>2. \A p \in Paths : NowApplied(p) = IF p = p0 THEN {c} ELSE {}
  BY <1>1 DEF NowApplied
<1>3. /\ applied'[p0] = Append(applied[p0], c)
      /\ \A p \in Paths : p # p0 => applied'[p] = applied[p]
      /\ applied' \in [Paths -> Seq(Callers)]
  <2>1. applied' = [p \in Paths |-> IF p = p0 THEN Append(applied[p], c) ELSE applied[p]]
    <3>1. (CHOOSE d \in {c} : TRUE) = c
      OBVIOUS
    <3>2. QED BY <1>2, <3>1 DEF Records
  <2>2. QED BY <2>1 DEF AppliedInv
<1>4. PICK n \in Nat : n = Len(applied[p0])
  BY DEF AppliedInv
<1>40. /\ Len(applied'[p0]) = n + 1 /\ applied'[p0][n + 1] = c
       /\ \A i \in 1..n : applied'[p0][i] = applied[p0][i]
  BY <1>3, <1>4 DEF AppliedInv
<1>5. ASSUME NEW p \in Paths, NEW i \in 1..(Len(applied[p]) + 1)
      PROVE  Before(p, i)' = Before(p, i)
  <2>1. i # 1 => i - 1 \in 1..Len(applied[p])
    BY <1>5 DEF AppliedInv
  <2>2. i # 1 => applied'[p][i - 1] = applied[p][i - 1]
    BY <1>3, <1>4, <1>40, <2>1
  <2>3. QED BY <2>2 DEF Before
<1>6. ASSUME NEW p \in Paths, NEW i \in 1..Len(applied[p])
      PROVE  applied'[p][i] = applied[p][i] /\ Found(p, i, applied[p][i])'
  <2>1. i \in 1..(Len(applied[p]) + 1) /\ Found(p, i, applied[p][i])
    BY DEF AppliedInv
  <2>2. applied'[p][i] = applied[p][i]
    BY <1>3, <1>4, <1>40
  <2>3. applied[p][i] # c
    BY <2>1 DEF Found
  <2>4. request'[applied[p][i]] = "stored" /\ Before(p, i)' = Before(p, i)
    BY <1>1, <1>5, <2>1, <2>3 DEF Found
  <2>5. QED BY <2>1, <2>2, <2>4 DEF Found
<1>7. Found(p0, n + 1, c)'
  <2>1. objects[p0] = Before(p0, n + 1) /\ n + 1 \in 1..(n + 1)
    BY <1>4 DEF AppliedInv
  <2>2. objects[p0] = Before(p0, n + 1)'
    BY <1>4, <1>5, <2>1
  <2>3. QED BY <1>1, <2>2 DEF Found, Promise!Condition
<1>8. ASSUME NEW p \in Paths
      PROVE  /\ objects'[p] = Before(p, Len(applied[p]) + 1)'
             /\ \A i \in 1..Len(applied'[p]) : Found(p, i, applied[p][i])'
  <2>1. CASE p = p0
    <3>1. Before(p0, Len(applied[p0]) + 1)' = call[c].value
      <4>1. n + 1 + 1 # 1 /\ n + 1 + 1 - 1 = n + 1
        OBVIOUS
      <4>2. QED BY <1>40, <4>1 DEF Before
    <3>2. ASSUME NEW i \in 1..Len(applied'[p0])
          PROVE  Found(p0, i, applied[p0][i])'
      <4>1. i \in 1..n \/ i = n + 1
        BY <1>40
      <4>2. CASE i = n + 1
        BY <1>7, <1>40, <4>2 DEF Found
      <4>3. CASE i \in 1..n
        BY <1>4, <1>6, <4>3
      <4>4. QED BY <4>1, <4>2, <4>3
    <3>3. QED BY <1>1, <2>1, <3>1, <3>2
  <2>2. CASE p # p0
    <3>1. applied'[p] = applied[p] /\ objects'[p] = objects[p]
      BY <1>1, <1>3, <2>2
    <3>2. Len(applied[p]) + 1 \in 1..(Len(applied[p]) + 1)
      BY DEF AppliedInv
    <3>3. Before(p, Len(applied[p]) + 1)' = Before(p, Len(applied[p]) + 1)
      BY <1>5, <3>1, <3>2
    <3>4. QED BY <1>6, <3>1, <3>3 DEF AppliedInv
  <2>3. QED BY <2>1, <2>2
<1>9. ASSUME NEW d \in Callers, request'[d] = "stored"
      PROVE  /\ call[d].path \in Paths
             /\ \E i \in 1..Len(applied'[call[d].path]) : applied'[call[d].path][i] = d
  <2>1. CASE d = c
    <3>1. n + 1 \in 1..Len(applied'[p0])
      BY <1>40
    <3>2. QED BY <1>40, <2>1, <3>1
  <2>2. CASE d # c
    <3>1. request[d] = "stored"
      BY <1>1, <1>9, <2>2
    <3>2. call[d].path \in Paths
      BY <3>1 DEF AppliedInv
    <3>3. PICK p \in Paths : p = call[d].path
      BY <3>2
    <3>4. PICK i \in 1..Len(applied[p]) : applied[p][i] = d
      BY <3>1, <3>3 DEF AppliedInv
    <3>5. applied'[p][i] = d
      BY <1>6, <3>4
    <3>6. i \in 1..Len(applied'[p])
      <4>1. CASE p = p0
        BY <1>4, <1>40, <3>4, <4>1
      <4>2. CASE p # p0
        BY <1>3, <3>4, <4>2
      <4>3. QED BY <4>1, <4>2
    <3>7. QED BY <3>3, <3>5, <3>6
  <2>3. QED BY <2>1, <2>2
<1>10. QED BY <1>3, <1>8, <1>9 DEF AppliedInv

----------------------------------------------------------------------------
\* A new call changes nothing that was put, refused or told.
LEMMA CallFences ==
    ASSUME TypeOK, FenceInv, NEW c \in Callers, NEW k \in AllCalls,
           Promise!Call(c, k), Records
    PROVE  FenceInv'
<1>1. request[c] = "none" /\ answer[c] = None /\ k # None
  BY CallFields DEF FenceInv, AnswerInv, Promise!Call
<1>2. /\ call'[c] = k
      /\ \/ request'[c] = "sent" /\ answer'[c] = None
         \/ request'[c] = "none" /\ answer'[c] = "NotSupported"
  BY <1>1 DEF Promise!Call, Promise!Told, TypeOK
<1>3. \A d \in Callers : d # c =>
         call'[d] = call[d] /\ request'[d] = request[d] /\ answer'[d] = answer[d]
  BY DEF Promise!Call, Promise!Told, TypeOK
<1>4. AppliedInv'
  BY <1>1, <1>2, <1>3, NothingStored DEF FenceInv, Promise!Call
<1>5. AnswerInv(c)'
  BY <1>1, <1>2, PutNoneAssumption DEF AnswerInv, Refusals, Answers
<1>6. ASSUME NEW d \in Callers, d # c PROVE AnswerInv(d)'
  BY <1>3, <1>6 DEF FenceInv, AnswerInv
<1>7. QED BY <1>4, <1>5, <1>6 DEF FenceInv

\* A call takes effect, or does not, and keeps the fence.
LEMMA ApplyFences ==
    ASSUME TypeOK, FenceInv, NEW c \in Callers, Promise!Apply(c), Records
    PROVE  FenceInv'
<1>1. request[c] = "sent" /\ AnswerInv(c) /\ call[c] # None /\ UNCHANGED <<call, answer>>
  BY DEF FenceInv, AnswerInv, Promise!Apply
<1>2. call[c] \in AllCalls /\ call[c].path \in Paths
  BY <1>1, CallFields DEF TypeOK
<1>3. /\ request'[c] \in {"stored", "refused"}
      /\ request'[c] = "stored" => Promise!Condition(c)
      /\ \A d \in Callers : d # c => request'[d] = request[d]
  BY DEF Promise!Apply, TypeOK
<1>4. AppliedInv'
  <2>1. CASE request'[c] = "stored"
    <3>1. /\ objects' = [objects EXCEPT ![call[c].path] = call[c].value]
          /\ request' = [request EXCEPT ![c] = "stored"]
      BY <1>1, <2>1 DEF Promise!Apply, TypeOK
    <3>2. call[c].mode = "create" => call[c].value # None
      BY <1>2, PutNoneAssumption DEF AllCalls, Calls, Put, Update, Deletion
    <3>3. QED BY <1>1, <1>2, <1>3, <2>1, <3>1, <3>2, PutStored DEF FenceInv
  <2>2. CASE request'[c] = "refused"
    <3>1. UNCHANGED objects
      BY <1>1, <2>2 DEF Promise!Apply, TypeOK
    <3>2. QED BY <1>1, <1>3, <2>2, <3>1, NothingStored DEF FenceInv
  <2>3. QED BY <1>3, <2>1, <2>2
<1>5. AnswerInv(c)'
  BY <1>1, <1>3 DEF AnswerInv, Promise!Apply
<1>6. ASSUME NEW d \in Callers, d # c PROVE AnswerInv(d)'
  BY <1>1, <1>3, <1>6 DEF FenceInv, AnswerInv
<1>7. QED BY <1>4, <1>5, <1>6 DEF FenceInv

\* A caller is told of a put or a refusal that happened.
LEMMA AnswerFences ==
    ASSUME TypeOK, FenceInv, NEW c \in Callers, Promise!Answer(c), Records
    PROVE  FenceInv'
<1>1. UNCHANGED <<objects, call, request>> /\ call[c] # None
  BY DEF Promise!Answer
<1>2. AppliedInv'
  BY <1>1, NothingStored DEF FenceInv
<1>3. /\ answer'[c] = "ok" => request[c] = "stored"
      /\ answer'[c] \in Refusals => request[c] = "refused"
      /\ \A d \in Callers : d # c => answer'[d] = answer[d]
  BY DEF Promise!Answer, Promise!Told, Promise!Refusal, Refusals, TypeOK
<1>4. AnswerInv(c)'
  BY <1>1, <1>3 DEF FenceInv, AnswerInv
<1>5. ASSUME NEW d \in Callers, d # c PROVE AnswerInv(d)'
  BY <1>1, <1>3, <1>5 DEF FenceInv, AnswerInv
<1>6. QED BY <1>2, <1>4, <1>5 DEF FenceInv

\* Nothing is put in the initial states.
LEMMA InitFences == BothInit => FenceInv
<1> SUFFICES ASSUME BothInit PROVE FenceInv
  OBVIOUS
<1>1. /\ \A c \in Callers : request[c] = "none" /\ answer[c] = None
      /\ \A p \in Paths : objects[p] = None
      /\ applied = [p \in Paths |-> <<>>]
  BY DEF BothInit, BindingInit, Init
<1>2. \A c \in Callers : AnswerInv(c)
  BY <1>1, PutNoneAssumption DEF AnswerInv, Answers, Refusals
<1>3. AppliedInv
  BY <1>1 DEF AppliedInv, Before
<1>4. QED BY <1>2, <1>3 DEF FenceInv

\* Every step of the promise keeps what fencing needs.
LEMMA NextFences ==
    ASSUME TypeOK, FenceInv, [Promise!Next]_Promise!store, Records
    PROVE  FenceInv'
<1>1. CASE Promise!Next
  <2>1. PICK c \in Callers :
            \/ \E k \in AllCalls : Promise!Call(c, k)
            \/ Promise!Apply(c)
            \/ Promise!Answer(c)
    BY <1>1, SameCalls DEF Promise!Next
  <2>2. QED BY <2>1, CallFences, ApplyFences, AnswerFences
<1>2. CASE UNCHANGED Promise!store
  <2>1. UNCHANGED <<objects, call, request, answer>>
    BY <1>2 DEF Promise!store
  <2>2. AppliedInv'
    BY <2>1, NothingStored DEF FenceInv
  <2>3. QED BY <2>1, <2>2 DEF FenceInv, AnswerInv
<1>3. QED BY <1>1, <1>2

\* Both adapters keep what fencing needs, because they keep the promise.
LEMMA FenceInvariance == BothSpec => []FenceInv
<1>1. BothInv /\ FenceInv /\ [BothNext]_<<vars, adapter, only, applied>> => FenceInv'
  <2> SUFFICES ASSUME BothInv, FenceInv, [BothNext]_<<vars, adapter, only, applied>>
               PROVE  FenceInv'
    OBVIOUS
  <2>1. TypeOK /\ [Promise!Next]_Promise!store
    BY BothKeep DEF BothInv, IInv, WInv, BindingTypeOK
  <2>2. CASE BothNext
    BY <2>1, <2>2, NextFences DEF BothNext
  <2>3. CASE UNCHANGED <<vars, adapter, only, applied>>
    <3>1. UNCHANGED <<objects, call, request, answer, applied>>
      BY <2>3 DEF vars, store
    <3>2. AppliedInv'
      BY <3>1, NothingStored DEF FenceInv
    <3>3. QED BY <3>1, <3>2 DEF FenceInv, AnswerInv
  <2>4. QED BY <2>2, <2>3
<1>2. QED BY <1>1, InitFences, BothInvariance, PTL DEF BothSpec

----------------------------------------------------------------------------
\* Of two stored requests one was applied first; if the other found v, which the
\* first did not leave, a third one left it between them.
LEMMA FoundBetween ==
    ASSUME AppliedInv, NEW c \in Callers, NEW d \in Callers, c # d,
           request[c] = "stored", request[d] = "stored", call[c].path = call[d].path,
           NEW v, call[c].value # v, call[d].value # v,
           \A p \in Paths, i \in Nat :
              Found(p, i, c) \/ Found(p, i, d) => Before(p, i) = v
    PROVE  Between(call[c].path, c, d, v)
<1>1. PICK p \in Paths : p = call[c].path
  BY DEF AppliedInv
<1>2. Len(applied[p]) \in Nat /\ DOMAIN applied[p] = 1..Len(applied[p])
  BY DEF AppliedInv
<1>3. PICK i \in 1..Len(applied[p]), j \in 1..Len(applied[p]) :
         applied[p][i] = c /\ applied[p][j] = d
  BY <1>1 DEF AppliedInv
<1>4. Before(p, i) = v /\ Before(p, j) = v
  BY <1>2, <1>3 DEF AppliedInv
<1>5. i # j
  BY <1>3
<1>6. CASE i < j
  <2>1. j # 1 /\ call[applied[p][j - 1]].value = v
    BY <1>2, <1>4, <1>6 DEF Before
  <2>2. j - 1 # i
    BY <1>3, <2>1
  <2>3. j - 1 \in (i + 1)..(j - 1)
    BY <1>2, <1>6, <2>2
  <2>4. QED BY <1>1, <1>2, <1>3, <2>1, <2>3 DEF Between
<1>7. CASE j < i
  <2>1. i # 1 /\ call[applied[p][i - 1]].value = v
    BY <1>2, <1>4, <1>7 DEF Before
  <2>2. i - 1 # j
    BY <1>3, <2>1
  <2>3. i - 1 \in (j + 1)..(i - 1)
    BY <1>2, <1>7, <2>2
  <2>4. {applied[p][j], applied[p][i]} = {c, d}
    BY <1>3
  <2>5. QED BY <1>1, <1>2, <2>1, <2>3, <2>4 DEF Between
<1>8. QED BY <1>2, <1>5, <1>6, <1>7

\* Two creates of a path succeed only with a delete applied between them, however
\* many callers race through either adapter and whatever breaks.
THEOREM OneCreatorEver == BothSpec => []OneCreator
<1>1. FenceInv => OneCreator
  <2> SUFFICES ASSUME FenceInv, NEW c \in Callers, NEW d \in Callers,
                      c # d, Did(c, "create"), Did(d, "create"),
                      call[c].path = call[d].path
               PROVE  Between(call[c].path, c, d, None)
    BY DEF OneCreator
  <2>1. \A e \in {c, d} : request[e] = "stored" /\ call[e].mode = "create"
    BY DEF FenceInv, AnswerInv, Did
  <2>2. \A p \in Paths, i \in Nat :
           Found(p, i, c) \/ Found(p, i, d) => Before(p, i) = None
    BY <2>1 DEF Found
  <2>3. \A e \in {c, d} : call[e].value # None
    BY <2>1 DEF FenceInv, AppliedInv, Found
  <2>4. QED BY <2>1, <2>2, <2>3, FoundBetween DEF FenceInv
<1>2. QED BY <1>1, FenceInvariance, PTL

\* Two updates that replace one ETag succeed only if a request applied between
\* them put that content again.
THEOREM OneUpdaterEver == BothSpec => []OneUpdater
<1>1. FenceInv => OneUpdater
  <2> SUFFICES ASSUME FenceInv, NEW c \in Callers, NEW d \in Callers,
                      c # d, Did(c, "update"), Did(d, "update"),
                      call[c].path = call[d].path, call[c].etag = call[d].etag,
                      call[c].value # call[c].etag, call[d].value # call[d].etag
               PROVE  Between(call[c].path, c, d, call[c].etag)
    BY DEF OneUpdater
  <2>1. \A e \in {c, d} : request[e] = "stored" /\ call[e].mode = "update"
    BY DEF FenceInv, AnswerInv, Did
  <2>2. \A p \in Paths, i \in Nat :
           Found(p, i, c) \/ Found(p, i, d) => Before(p, i) = call[c].etag
    BY <2>1 DEF Found
  <2>3. QED BY <2>1, <2>2, FoundBetween DEF FenceInv
<1>2. QED BY <1>1, FenceInvariance, PTL

\* A refusal is final: the request is not stored and never will be.
THEOREM RefusalsAreFinal == BothSpec => []RefusedNeverStored
<1>1. FenceInv => RefusedNeverStored
  BY DEF FenceInv, AnswerInv, RefusedNeverStored
<1>2. QED BY <1>1, FenceInvariance, PTL
=============================================================================
