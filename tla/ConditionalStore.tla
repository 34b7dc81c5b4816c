-------------------------- MODULE ConditionalStore --------------------------
(***************************************************************************)
(* The promise of a conditional object store to its callers: every call    *)
(* takes effect at most once, in one atomic step in which its condition    *)
(* holds, and the caller is told so or told nothing.  An error that is not *)
(* a refusal leaves open whether the call took effect, or still will.      *)
(***************************************************************************)
EXTENDS PutCalls

Condition(c) ==
    LET k == call[c] IN
    \/ k.mode \in {"overwrite", "delete"}
    \/ k.mode = "create" /\ objects[k.path] = None
    \/ k.mode = "update" /\ k.etag # None /\ objects[k.path] = k.etag

Call(c, k) ==
    /\ call[c] = None
    /\ call' = [call EXCEPT ![c] = k]
    /\ \/ request' = [request EXCEPT ![c] = "sent"] /\ UNCHANGED answer
       \/ /\ k.mode = "update" /\ k.etag = None
          /\ Told(c, "NotSupported")
          /\ UNCHANGED request
    /\ UNCHANGED objects

Apply(c) ==
    /\ request[c] = "sent"
    /\ \/ /\ Condition(c)
          /\ objects' = [objects EXCEPT ![call[c].path] = call[c].value]
          /\ request' = [request EXCEPT ![c] = "stored"]
       \/ /\ ~Condition(c)
          /\ request' = [request EXCEPT ![c] = "refused"]
          /\ UNCHANGED objects
    /\ UNCHANGED <<call, answer>>

Answer(c) ==
    /\ call[c] # None /\ answer[c] = None
    /\ \/ request[c] = "stored" /\ Told(c, "ok")
       \/ request[c] = "refused" /\ Told(c, Refusal(c))
       \/ Told(c, "Generic")
    /\ UNCHANGED <<objects, call, request>>

Next ==
    \E c \in Callers :
        \/ \E k \in AllCalls : Call(c, k)
        \/ Apply(c)
        \/ Answer(c)

Spec == Init /\ [][Next]_store
=============================================================================
