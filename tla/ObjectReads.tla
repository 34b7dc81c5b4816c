----------------------------- MODULE ObjectReads -----------------------------
(***************************************************************************)
(* get_opts of durable-object/src/r2_store.rs and of                       *)
(* container/src/binding_store.rs with the bridge (container/worker/       *)
(* index.ts): one conditional or ranged read of one object, while others   *)
(* replace and delete it.                                                  *)
(*                                                                         *)
(* The bytes of an object are numbered from 0; one content of each size    *)
(* is enough, so a content is its size and its ETag.  Times are clock      *)
(* ticks, Second of them to a second: the Worker's adapter hands R2 a      *)
(* date, the bridge an HTTP header, which has whole seconds only.          *)
(***************************************************************************)
EXTENDS Integers, FiniteSets

CONSTANTS
    Sizes,      \* the contents there can be
    Times,      \* bound: when an object can be uploaded
    Tags,       \* the ETags a call may name
    Dates,      \* the dates a call may name
    Positions,  \* the bytes where a range may begin and end
    Second,
    MaxSeen,    \* bound: the states the object goes through during a call
    Any,        \* the ETag condition "*"
    None

ASSUME SizesAssumption == Sizes \subseteq Nat /\ Tags \subseteq Nat
ASSUME TimesAssumption == Times \subseteq Nat /\ Dates \subseteq Nat
ASSUME PositionsAssumption == Positions \subseteq Nat
ASSUME SecondAssumption == Second \in Nat \ {0}

Objects == [etag: Sizes, uploaded: Times]
Size(o) == o.etag

\* Bounded(from..to), Offset(from) and Suffix(to).  R2's answer to the last 0
\* bytes is not the repository's to say, so no call asks for them.
Ranges ==
    [shape: {"bounded"}, from: Positions, to: Positions]
        \cup [shape: {"offset"}, from: Positions, to: {0}]
        \cup [shape: {"suffix"}, from: {0}, to: Positions \ {0}]

\* GetOptions, and the adapter the call goes through.
Calls ==
    [via: {"worker", "bridge"}, head: BOOLEAN, versioned: BOOLEAN,
     range: Ranges \cup {None},
     ifMatch: Tags \cup {Any, None}, ifNoneMatch: Tags \cup {Any, None},
     unmodifiedSince: Dates \cup {None}, modifiedSince: Dates \cup {None}]

Span(from, to) == [from |-> from, to |-> to]
Spans == [from: Nat, to: Nat]

Replies ==
    [status: {"found", "none", "304", "404", "412"}, meta: Objects \cup {None},
     body: Spans \cup {None}]
Answers ==
    [kind: {"ok", "NotSupported", "NotFound", "Precondition", "NotModified", "Generic"},
     meta: Objects \cup {None}, range: Spans \cup {None}, payload: Spans \cup {None}]

ASSUME ReadsNoneAssumption ==
    /\ None \notin Nat /\ Any \notin Nat /\ Any # None
    /\ None \notin Calls /\ None \notin Objects /\ None \notin Spans /\ None \notin Answers

VARIABLES
    object,     \* the object in the bucket, or None
    now,        \* the clock
    call,       \* the call, or None before it
    reply,      \* what R2, or the bridge, answered
    answer,     \* what get_opts returned
    seen,       \* history: the states of the object during the call
    fault       \* history: R2 or the connection failed

vars == <<object, now, call, reply, answer, seen, fault>>

Reply(status, meta, body) == [status |-> status, meta |-> meta, body |-> body]

Error(kind) == [kind |-> kind, meta |-> None, range |-> None, payload |-> None]

\* The range lies within the object: it begins no later than it ends, and ends
\* no later than the object.
InObject(span, o) == span.from <= span.to /\ span.to <= Size(o)

\* Every variable keeps its type; a range that is returned, and the bytes that
\* come with it, wrap at neither end and are within the object returned.
ReadTypeOK ==
    /\ object \in Objects \cup {None}
    /\ now \in Times
    /\ call \in Calls \cup {None}
    /\ reply \in Replies \cup {None}
    /\ answer \in Answers \cup {None}
    /\ seen \subseteq Objects \cup {None}
    /\ fault \in BOOLEAN
    /\ answer # None /\ answer.kind = "ok" =>
         \A span \in {answer.range, answer.payload} \ {None} : InObject(span, answer.meta)

Init ==
    /\ object \in Objects \cup {None}
    /\ now \in Times
    /\ object # None => object.uploaded <= now
    /\ call = None /\ reply = None /\ answer = None
    /\ seen = {} /\ fault = FALSE

----------------------------------------------------------------------------
(* The conditions of a call. *)

Matches(tag, o) == tag = Any \/ tag = o.etag

\* check_preconditions of object_store: an ETag condition overrides the date
\* of its kind.
Unmodified(k, o) ==
    /\ k.ifMatch # None => Matches(k.ifMatch, o)
    /\ k.ifMatch = None /\ k.unmodifiedSince # None => o.uploaded <= k.unmodifiedSince

Modified(k, o) ==
    /\ k.ifNoneMatch # None => ~Matches(k.ifNoneMatch, o)
    /\ k.ifNoneMatch = None /\ k.modifiedSince # None => o.uploaded > k.modifiedSince

\* What is left of a time on the way to R2: to_rfc2822 has whole seconds.
AsSent(k, t) == IF k.via = "bridge" THEN t \div Second ELSE t

\* R2's onlyIf.  Ties says for which of the two date conditions an upload at
\* the very date, as far as R2 was told it, passes.
OnlyIf(k, o, ties) ==
    LET uploaded == AsSent(k, o.uploaded) IN
    /\ k.ifMatch # None => Matches(k.ifMatch, o)
    /\ k.ifMatch = None /\ k.unmodifiedSince # None =>
         \/ uploaded < AsSent(k, k.unmodifiedSince)
         \/ uploaded = AsSent(k, k.unmodifiedSince) /\ "before" \in ties
    /\ k.ifNoneMatch # None => ~Matches(k.ifNoneMatch, o)
    /\ k.ifNoneMatch = None /\ k.modifiedSince # None =>
         \/ uploaded > AsSent(k, k.modifiedSince)
         \/ uploaded = AsSent(k, k.modifiedSince) /\ "after" \in ties

Unconditional(k) ==
    k.ifMatch = None /\ k.ifNoneMatch = None
        /\ k.unmodifiedSince = None /\ k.modifiedSince = None

----------------------------------------------------------------------------
(* Ranges. *)

IsValid(range) == range.shape = "bounded" => range.from < range.to

\* R2Range::OffsetWithLength
ToR2Range(range) == [offset |-> range.from, length |-> range.to - range.from]

\* MUTANT: the header names the end of the range as its last byte.
RangeHeaderToEnd(range) == [first |-> range.from, last |-> range.to]

\* "bytes=first-last"
RangeHeader(range) == [first |-> range.from, last |-> range.to - 1]

\* The end that R2 reads from what it was sent.
EndAsSent(k) ==
    IF k.via = "worker"
    THEN ToR2Range(k.range).offset + ToR2Range(k.range).length
    ELSE RangeHeader(k.range).last + 1

Within(n, size) == IF n > size THEN size ELSE n

\* R2 fails a range that begins past the end.
Satisfiable(range, size) ==
    (range # None /\ range.shape # "suffix") => range.from < size

\* The bytes R2 sends.
Selected(k, size) ==
    IF k.range = None THEN Span(0, size) ELSE
    CASE k.range.shape = "bounded"  -> Span(k.range.from, Within(EndAsSent(k), size))
      [] k.range.shape = "offset"   -> Span(k.range.from, size)
      [] k.range.shape = "suffix"   -> Span(size - Within(k.range.to, size), size)

\* MUTANT: a range that reaches past the end is an error.
UnclampedRange(range, size) ==
    IF range = None THEN Span(0, size) ELSE
    CASE range.shape = "bounded" ->
           IF range.from < size /\ range.to <= size THEN Span(range.from, range.to) ELSE None
      [] range.shape = "offset" ->
           IF range.from < size THEN Span(range.from, size) ELSE None
      [] range.shape = "suffix" -> Span(size - Within(range.to, size), size)

\* MUTANT: the last bytes of a shorter object begin below 0.
UnsaturatedSuffix(range, size) ==
    IF range = None THEN Span(0, size) ELSE
    CASE range.shape = "bounded" ->
           IF range.from < size THEN Span(range.from, Within(range.to, size)) ELSE None
      [] range.shape = "offset" ->
           IF range.from < size THEN Span(range.from, size) ELSE None
      [] range.shape = "suffix" -> Span(size - range.to, size)

\* returned_range, or None for its error.
ReturnedRange(range, size) ==
    IF range = None THEN Span(0, size) ELSE
    CASE range.shape = "bounded" ->
           IF range.from < size THEN Span(range.from, Within(range.to, size)) ELSE None
      [] range.shape = "offset" ->
           IF range.from < size THEN Span(range.from, size) ELSE None
      [] range.shape = "suffix" -> Span(size - Within(range.to, size), size)

----------------------------------------------------------------------------
(* Other writers of the bucket. *)

UnderWay == call # None /\ answer = None

Changes(o) ==
    /\ UnderWay /\ Cardinality(seen) < MaxSeen
    /\ object' = o
    /\ seen' = seen \cup {o}
    /\ UNCHANGED <<call, reply, answer, fault>>

Replace(o) == now <= o.uploaded /\ now' = o.uploaded /\ Changes(o)

Delete == object # None /\ UNCHANGED now /\ Changes(None)

----------------------------------------------------------------------------
(* The call goes out. *)

Returns(a) == answer' = a /\ UNCHANGED <<object, now, call, reply, seen>>

\* Versions cannot be read, and a malformed range is not sent.
GetOpts(k) ==
    /\ call = None
    /\ call' = k
    /\ seen' = {object}
    /\ answer' = CASE k.versioned                            -> Error("NotSupported")
                   [] k.range # None /\ ~IsValid(k.range)
                        /\ ~k.versioned                      -> Error("Generic")
                   [] OTHER                                  -> None
    /\ UNCHANGED <<object, now, reply, fault>>

Sent == UnderWay /\ reply = None

Receives(r) == reply' = r /\ UNCHANGED <<object, now, call, answer, seen, fault>>

\* The Worker's adapter asks for the head alone only without range and
\* conditions; the bridge never passes them on with a HEAD.
AsksHead(k) ==
    k.head /\ (k.via = "bridge" \/ (k.range = None /\ Unconditional(k)))

\* bucket.head
R2Head ==
    /\ Sent /\ AsksHead(call)
    /\ IF object = None
       THEN Receives(Reply(IF call.via = "bridge" THEN "404" ELSE "none", None, None))
       ELSE Receives(Reply("found", object, None))

\* MUTANT: the bridge answers every refusal with 304.
AlwaysNotModified(k) == "304"

\* The bridge is not told which condition failed.
RefusedStatus(k) ==
    IF k.ifNoneMatch # None \/ k.modifiedSince # None THEN "304" ELSE "412"

\* bucket.get: an object comes without its body when a condition fails.
R2Get(ties) ==
    /\ Sent /\ ~AsksHead(call)
    /\ \/ /\ object = None
          /\ Receives(Reply(IF call.via = "bridge" THEN "404" ELSE "none", None, None))
       \/ /\ object # None /\ ~OnlyIf(call, object, ties)
          /\ Receives(Reply(IF call.via = "bridge" THEN RefusedStatus(call) ELSE "found",
                           object, None))
       \/ /\ object # None /\ OnlyIf(call, object, ties)
          /\ Satisfiable(call.range, Size(object))
          /\ Receives(Reply("found", object, Selected(call, Size(object))))

\* R2 refuses an unsatisfiable range with an exception, or a status 500.
R2RangeErr ==
    /\ Sent /\ ~AsksHead(call)
    /\ object # None /\ ~Satisfiable(call.range, Size(object))
    /\ Returns(Error("Generic")) /\ UNCHANGED fault

\* The R2 call, the bridge or the connection fails.
Fails ==
    /\ UnderWay
    /\ Returns(Error("Generic")) /\ fault' = TRUE

----------------------------------------------------------------------------
(* The answer. *)

\* Both adapters check the conditions once more on what they got, and find the
\* range in the size that came with it.
Checked(k, meta, payload) ==
    CASE ~Unmodified(k, meta)                              -> Error("Precondition")
      [] Unmodified(k, meta) /\ ~Modified(k, meta)         -> Error("NotModified")
      [] Unmodified(k, meta) /\ Modified(k, meta)
           /\ ReturnedRange(k.range, Size(meta)) = None    -> Error("Generic")
      [] OTHER -> [kind |-> "ok", meta |-> meta,
                   range |-> ReturnedRange(k.range, Size(meta)), payload |-> payload]

\* get_inner: without a body there is nothing to return but for a head.
WorkerAnswers ==
    /\ UnderWay /\ reply # None /\ call.via = "worker"
    /\ Returns(
         IF reply.status = "none" THEN Error("NotFound")
         ELSE LET checked == Checked(call, reply.meta, IF call.head THEN None ELSE reply.body)
              IN  IF checked.kind = "ok" /\ ~call.head /\ reply.body = None
                  THEN Error("Precondition") ELSE checked)
    /\ UNCHANGED fault

\* The statuses, and then the object's headers; the body streams on.
BridgeAnswers ==
    /\ UnderWay /\ reply # None /\ call.via = "bridge"
    /\ Returns(
         CASE reply.status = "404"   -> Error("NotFound")
           [] reply.status = "412"   -> Error("Precondition")
           [] reply.status = "304"   -> Error("NotModified")
           [] reply.status = "found" ->
                Checked(call, reply.meta, IF call.head THEN None ELSE reply.body))
    /\ UNCHANGED fault

Returned == answer # None /\ UNCHANGED vars

Next ==
    \/ \E o \in Objects : Replace(o)
    \/ Delete
    \/ \E k \in Calls : GetOpts(k)
    \/ R2Head \/ (\E ties \in SUBSET {"before", "after"} : R2Get(ties)) \/ R2RangeErr
    \/ Fails \/ WorkerAnswers \/ BridgeAnswers \/ Returned

Spec == Init /\ [][Next]_vars

----------------------------------------------------------------------------
\* What a read returns is one version that the bucket held during the call: its
\* metadata satisfies every condition, to the tick, and the bytes are those of
\* the range it names, of that version's size (container/README.md:23 "preserves
\* R2 conditional writes, ranges").
ReadIsTrue ==
    answer # None /\ answer.kind = "ok" =>
        /\ answer.meta \in seen \ {None}
        /\ Unmodified(call, answer.meta) /\ Modified(call, answer.meta)
        /\ answer.range = ReturnedRange(call.range, Size(answer.meta))
        /\ answer.payload = IF call.head THEN None ELSE answer.range

\* A date condition may be refused at the date itself, over the bridge in the
\* same second.
MayBeStale(k, o) ==
    \/ k.ifMatch # None /\ ~Matches(k.ifMatch, o)
    \/ /\ k.ifMatch = None /\ k.unmodifiedSince # None
       /\ AsSent(k, o.uploaded) >= AsSent(k, k.unmodifiedSince)

MayBeFresh(k, o) ==
    \/ k.ifNoneMatch # None /\ Matches(k.ifNoneMatch, o)
    \/ /\ k.ifNoneMatch = None /\ k.modifiedSince # None
       /\ AsSent(k, o.uploaded) <= AsSent(k, k.modifiedSince)

\* A refusal is true of a state of the object during the call, and names the
\* condition that failed.  Over the bridge a GET with conditions of both kinds
\* is told "not modified" for either.
RefusalIsTrue ==
    answer # None =>
        /\ answer.kind = "NotFound" => None \in seen
        /\ answer.kind = "Precondition" =>
             \E o \in seen \ {None} : MayBeStale(call, o)
        /\ answer.kind = "NotModified" =>
             /\ call.ifNoneMatch # None \/ call.modifiedSince # None
             /\ \E o \in seen \ {None} :
                  \/ MayBeFresh(call, o)
                  \/ call.via = "bridge" /\ ~call.head /\ MayBeStale(call, o)

\* Any other error has a cause: R2 or the connection failed, or the range is
\* malformed or begins past the end of an object there was.
ErrorHasCause ==
    answer # None /\ answer.kind = "Generic" =>
        \/ fault
        \/ /\ call.range # None
           /\ \/ ~IsValid(call.range)
              \/ \E o \in seen \ {None} : ~Satisfiable(call.range, Size(o))
=============================================================================
