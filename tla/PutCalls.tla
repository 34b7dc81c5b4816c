------------------------------ MODULE PutCalls ------------------------------
(***************************************************************************)
(* What the object stores of this repository share: the calls of           *)
(* ObjectStore::put_opts and copy_opts, the objects in R2, and what the    *)
(* callers may rely on.  ConditionalStore says what a conditional store    *)
(* promises; R2Store (the Durable Object's binding) and BindingStore (the  *)
(* container's HTTP bridge) are the two implementations.                   *)
(*                                                                         *)
(* The ETag of an R2 object is derived from its content, so an object is   *)
(* its own ETag here: writing the same content again gives the same ETag.  *)
(***************************************************************************)
EXTENDS Naturals

CONSTANTS
    Callers,    \* each makes one call
    Paths,
    Values,
    None

VARIABLES
    objects,    \* objects[p]: the content of p in R2, or None
    call,       \* call[c]: what c asked for, or None
    request,    \* request[c]: what became of the request at R2
    answer      \* answer[c]: what c was told, or None

store == <<objects, call, request, answer>>

\* A copy is a put of what was read at `from`.  `versioned` says whether an
\* update carries a version besides its ETag.
Put(mode, p, v)    == [mode |-> mode, path |-> p, value |-> v, etag |-> None,
                       versioned |-> FALSE]
Update(p, v, e, b) == [mode |-> "update", path |-> p, value |-> v, etag |-> e,
                       versioned |-> b]

\* An update may name no ETag.
Etags == Values \cup {None}

Calls == {Put(m, p, v) : m \in {"overwrite", "create"}, p \in Paths, v \in Values}
         \cup {Update(p, v, e, b) : p \in Paths, v \in Values, e \in Etags, b \in BOOLEAN}

Deletion(p) == [mode |-> "delete", path |-> p, value |-> None, etag |-> None,
                versioned |-> FALSE]

AllCalls == Calls \cup {Deletion(p) : p \in Paths}

ASSUME NoCallAssumption == None \notin AllCalls

Requests == {"none", "sent", "stored", "refused"}
Refusals == {"AlreadyExists", "Precondition", "NotSupported"}
Answers  == {"ok", "Generic"} \cup Refusals

ASSUME PutNoneAssumption == None \notin Values \cup Answers

TypeOK ==
    /\ objects \in [Paths -> Values \cup {None}]
    /\ call \in [Callers -> AllCalls \cup {None}]
    /\ request \in [Callers -> Requests]
    /\ answer \in [Callers -> Answers \cup {None}]

Init ==
    /\ objects = [p \in Paths |-> None]
    /\ call = [c \in Callers |-> None]
    /\ request = [c \in Callers |-> "none"]
    /\ answer = [c \in Callers |-> None]

Told(c, a) == answer' = [answer EXCEPT ![c] = a]

\* A refused put is told why by its mode.
Refusal(c) == IF call[c].mode = "create" THEN "AlreadyExists" ELSE "Precondition"

----------------------------------------------------------------------------
Did(c, mode) == call[c] # None /\ call[c].mode = mode /\ answer[c] = "ok"

\* A caller told that its put was refused can rely on it: nothing of it is
\* stored, then or later.  (An answer of another kind promises nothing.)
RefusedNeverStored ==
    \A c \in Callers : answer[c] \in Refusals => request[c] \notin {"sent", "stored"}

\* No update succeeds without naming the ETag it replaces
\* (r2_store.rs:489: "R2 conditional update requires an ETag").
UpdateNamesETag ==
    \A c \in Callers : Did(c, "update") => call[c].etag # None
=============================================================================
