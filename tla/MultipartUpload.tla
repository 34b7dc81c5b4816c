--------------------------- MODULE MultipartUpload ---------------------------
(***************************************************************************)
(* R2MultipartUpload of durable-object/src/r2_store.rs: one upload, the    *)
(* caller that feeds it, and R2.  put_part allots the part's number when   *)
(* it is called; the futures it returns run concurrently and their         *)
(* requests reach R2 in any order, or fail with the request applied,       *)
(* rejected or still on its way.  complete and abort borrow the upload, so *)
(* they exclude each other while they run; a caller may drop either call.  *)
(*                                                                         *)
(* BindingMultipartUpload of container/src/binding_store.rs is the same    *)
(* machine: its bridge (handleR2 of container/worker/index.ts) only adds   *)
(* places where a request may wait or fail.                                *)
(*                                                                         *)
(* A part is named by the call that made it: part i is the data of the     *)
(* i-th put_part.  ETags are left out, since a number is sent only once.   *)
(***************************************************************************)
EXTENDS Naturals, Sequences, FiniteSets, Functions

CONSTANTS
    MaxParts,   \* MAX_MULTIPART_PARTS
    MaxPuts,    \* bound: the calls of put_part
    None

ASSUME MaxPartsAssumption == MaxParts \in Nat \ {0}
ASSUME MaxPutsAssumption == MaxPuts \in Nat \ {0}
ASSUME NoPartsAssumption == None \notin Seq(1..MaxPuts)

VARIABLES
    nextPart, finished,     \* the upload's fields
    uploaded,               \* uploaded_parts: part numbers as they were answered
    puts,                   \* calls of put_part so far
    number,                 \* number[i]: the part number of call i, or 0
    part,                   \* part[i]: the request of call i at R2
    partAnswer,             \* partAnswer[i]: what call i was told
    ending,                 \* ending[k]: the complete or abort call
    request,                \* request[k]: its request at R2
    list,                   \* the part numbers that complete sent
    waited,                 \* history: every part was answered ok before complete
    r2Parts,                \* r2Parts[n]: the call whose data R2 has as part n, or 0
    r2State,                \* the upload at R2
    object                  \* the completed object, as the calls of its parts

upload == <<nextPart, finished, uploaded>>
parts  == <<puts, number, part, partAnswer>>
ends   == <<ending, request, list, waited>>
r2     == <<r2Parts, r2State, object>>
vars   == <<upload, parts, ends, r2>>

PutIds == 1..MaxPuts
Kinds  == {"complete", "abort"}

UploadTypeOK ==
    /\ nextPart \in 1..(MaxParts + 1)
    /\ finished \in BOOLEAN
    /\ uploaded \in Seq(1..MaxParts)
    /\ puts \in 0..MaxPuts
    /\ number \in [PutIds -> 0..MaxParts]
    /\ part \in [PutIds -> {"none", "sent", "stored", "rejected"}]
    /\ partAnswer \in [PutIds -> {"none", "ok", "Generic", "NotSupported", "Precondition"}]
    /\ ending \in [Kinds -> {"none", "running", "dropped", "ok", "Generic", "Precondition"}]
    /\ request \in [Kinds -> {"none", "sent", "done", "rejected"}]
    /\ list \in Seq(1..MaxParts)
    /\ waited \in BOOLEAN
    /\ r2Parts \in [1..MaxParts -> 0..MaxPuts]
    /\ r2State \in {"open", "completed", "aborted"}
    /\ object \in Seq(PutIds)

\* put_multipart_opts returned: R2 created the upload.
Init ==
    /\ nextPart = 1 /\ finished = FALSE /\ uploaded = <<>>
    /\ puts = 0
    /\ number = [i \in PutIds |-> 0]
    /\ part = [i \in PutIds |-> "none"]
    /\ partAnswer = [i \in PutIds |-> "none"]
    /\ ending = [k \in Kinds |-> "none"]
    /\ request = [k \in Kinds |-> "none"]
    /\ list = <<>>
    /\ waited = FALSE
    /\ r2Parts = [n \in 1..MaxParts |-> 0]
    /\ r2State = "open"
    /\ object = <<>>

\* The numbers of a set in ascending order: each at the place of its rank.
InOrder(S) ==
    [i \in 1..Cardinality(S) |-> CHOOSE n \in S : Cardinality({m \in S : m < n}) = i - 1]

----------------------------------------------------------------------------
(* The parts. *)

\* No call of the upload runs while complete or abort borrows it.
Free == \A k \in Kinds : ending[k] # "running"

PartRefused(i) ==
    /\ \/ finished /\ partAnswer' = [partAnswer EXCEPT ![i] = "Precondition"]
       \/ /\ ~finished /\ nextPart > MaxParts
          /\ partAnswer' = [partAnswer EXCEPT ![i] = "NotSupported"]
    /\ UNCHANGED <<nextPart, number, part>>

\* MUTANT: the limit is off by one.
PartPastLimit(i) ==
    /\ ~finished /\ nextPart <= MaxParts + 1
    /\ number' = [number EXCEPT ![i] = nextPart]
    /\ nextPart' = nextPart + 1
    /\ part' = [part EXCEPT ![i] = "sent"]
    /\ UNCHANGED partAnswer

\* MUTANT: the number of a part is the count of those uploaded.
PartNumberedByUploads(i) ==
    /\ ~finished /\ nextPart <= MaxParts
    /\ number' = [number EXCEPT ![i] = Len(uploaded) + 1]
    /\ nextPart' = nextPart + 1
    /\ part' = [part EXCEPT ![i] = "sent"]
    /\ UNCHANGED partAnswer

PartSent(i) ==
    /\ ~finished /\ nextPart <= MaxParts
    /\ number' = [number EXCEPT ![i] = nextPart]
    /\ nextPart' = nextPart + 1
    /\ part' = [part EXCEPT ![i] = "sent"]
    /\ UNCHANGED partAnswer

PutPart ==
    /\ Free /\ puts < MaxPuts
    /\ puts' = puts + 1
    /\ PartRefused(puts') \/ PartSent(puts')
    /\ UNCHANGED <<finished, uploaded, ends, r2>>

R2StoresPart(i) ==
    /\ part[i] = "sent"
    /\ \/ /\ r2State = "open"
          /\ r2Parts' = [r2Parts EXCEPT ![number[i]] = i]
          /\ part' = [part EXCEPT ![i] = "stored"]
       \/ /\ r2State # "open"
          /\ part' = [part EXCEPT ![i] = "rejected"]
          /\ UNCHANGED r2Parts
    /\ UNCHANGED <<upload, puts, number, partAnswer, ends, r2State, object>>

PartOk(i) ==
    /\ part[i] = "stored" /\ partAnswer[i] = "none"
    /\ uploaded' = Append(uploaded, number[i])
    /\ partAnswer' = [partAnswer EXCEPT ![i] = "ok"]
    /\ UNCHANGED <<nextPart, finished, puts, number, part, ends, r2>>

PartErr(i) ==
    /\ part[i] # "none" /\ partAnswer[i] = "none"
    /\ partAnswer' = [partAnswer EXCEPT ![i] = "Generic"]
    /\ UNCHANGED <<upload, puts, number, part, ends, r2>>

----------------------------------------------------------------------------
(* complete and abort. *)

\* The caller may call again what failed or was dropped.
MayCall(k) == Free /\ ending[k] \in {"none", "dropped", "Generic"}

EndRefused(k) ==
    /\ MayCall(k) /\ finished
    /\ ending' = [ending EXCEPT ![k] = "Precondition"]
    /\ UNCHANGED <<upload, parts, request, list, waited, r2>>

EndSent(k) ==
    /\ ending' = [ending EXCEPT ![k] = "running"]
    /\ request' = [request EXCEPT ![k] = "sent"]

\* MUTANT: the parts in the order in which their uploads ended.
CompleteUnsorted ==
    /\ MayCall("complete") /\ ~finished
    /\ finished' = TRUE
    /\ EndSent("complete")
    /\ list' = uploaded
    /\ waited' = \A i \in 1..puts : partAnswer[i] = "ok"
    /\ UNCHANGED <<nextPart, uploaded, parts, r2>>

Complete ==
    /\ MayCall("complete") /\ ~finished
    /\ finished' = TRUE
    /\ EndSent("complete")
    /\ list' = InOrder(Range(uploaded))
    /\ waited' = \A i \in 1..puts : partAnswer[i] = "ok"
    /\ UNCHANGED <<nextPart, uploaded, parts, r2>>

\* MUTANT: an upload whose complete failed may still be aborted.
AbortUnfinished ==
    /\ MayCall("abort") /\ (finished => ending["complete"] # "ok")
    /\ finished' = TRUE
    /\ EndSent("abort")
    /\ UNCHANGED <<nextPart, uploaded, parts, list, waited, r2>>

Abort ==
    /\ MayCall("abort") /\ ~finished
    /\ finished' = TRUE
    /\ EndSent("abort")
    /\ UNCHANGED <<nextPart, uploaded, parts, list, waited, r2>>

\* R2 joins the parts in the order listed, if the upload is open and has them.
R2Completes ==
    /\ request["complete"] = "sent"
    /\ \/ /\ r2State = "open" /\ list # <<>>
          /\ \A i \in DOMAIN list : r2Parts[list[i]] # 0
          /\ object' = [i \in DOMAIN list |-> r2Parts[list[i]]]
          /\ r2State' = "completed"
          /\ request' = [request EXCEPT !["complete"] = "done"]
       \/ /\ r2State # "open" \/ list = <<>> \/ \E i \in DOMAIN list : r2Parts[list[i]] = 0
          /\ request' = [request EXCEPT !["complete"] = "rejected"]
          /\ UNCHANGED <<object, r2State>>
    /\ UNCHANGED <<upload, parts, ending, list, waited, r2Parts>>

\* Aborting an upload that is no longer open changes nothing, and is not
\* relied on to fail.
R2Aborts ==
    /\ request["abort"] = "sent"
    /\ request' = [request EXCEPT !["abort"] = "done"]
    /\ r2State' = IF r2State = "open" THEN "aborted" ELSE r2State
    /\ UNCHANGED <<upload, parts, ending, list, waited, r2Parts, object>>

EndOk(k) ==
    /\ ending[k] = "running" /\ request[k] = "done"
    /\ ending' = [ending EXCEPT ![k] = "ok"]
    /\ UNCHANGED <<upload, parts, request, list, waited, r2>>

\* The call fails, with its request anywhere on its way.
EndErr(k) ==
    /\ ending[k] = "running"
    /\ ending' = [ending EXCEPT ![k] = "Generic"]
    /\ UNCHANGED <<upload, parts, request, list, waited, r2>>

\* The caller drops the future.
EndDropped(k) ==
    /\ ending[k] = "running"
    /\ ending' = [ending EXCEPT ![k] = "dropped"]
    /\ UNCHANGED <<upload, parts, request, list, waited, r2>>

Next ==
    \/ PutPart
    \/ \E i \in PutIds : R2StoresPart(i) \/ PartOk(i) \/ PartErr(i)
    \/ Complete \/ Abort \/ R2Completes \/ R2Aborts
    \/ \E k \in Kinds : EndRefused(k) \/ EndOk(k) \/ EndErr(k) \/ EndDropped(k)

Spec == Init /\ [][Next]_vars

----------------------------------------------------------------------------
\* The object of a caller that waited for its parts, as object_store's writers
\* do, holds every one of them, each once and in the order of the calls, however
\* the uploads overtook each other.
CompletedObjectIsWhole ==
    object # <<>> /\ waited =>
        /\ object = [i \in 1..Len(object) |-> i]
        /\ {i \in PutIds : partAnswer[i] = "ok"} = 1..Len(object)

\* A caller told that its upload was aborted never finds the object.
AbortIsFinal == ending["abort"] = "ok" => object = <<>>

\* A caller that does not wait may lose parts, but no two are ever out of the
\* order of their calls: it sees one unconditional put, made when it completes,
\* of a part of its data in the order it was given.
Selections == {InOrder(S) : S \in (SUBSET PutIds) \ {{}}}

Overwrite == [mode |-> "overwrite", path |-> "object", value |-> list,
              etag |-> None, versioned |-> FALSE]

\* The put is called when complete has parts to list.
Put == request["complete"] # "none" /\ list # <<>>

PutRequest == IF ~Put THEN "none" ELSE IF request["complete"] = "done" THEN "stored" ELSE "sent"

PutAnswer ==
    IF ~Put \/ ending["complete"] \in {"running", "dropped"} THEN None
    ELSE IF ending["complete"] = "ok" THEN "ok" ELSE "Generic"

Promise == INSTANCE ConditionalStore WITH
    Callers <- {"upload"}, Paths <- {"object"}, Values <- Selections,
    objects <- [p \in {"object"} |-> IF object = <<>> THEN None ELSE object],
    call    <- [c \in {"upload"} |-> IF Put THEN Overwrite ELSE None],
    request <- [c \in {"upload"} |-> PutRequest],
    answer  <- [c \in {"upload"} |-> PutAnswer]

ASSUME NoPutAssumption == None \notin Promise!AllCalls

UploadIsPut == Promise!Spec
=============================================================================
