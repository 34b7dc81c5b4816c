------------------------- MODULE ObjectReadsProofs --------------------------
(***************************************************************************)
(* Proofs about ObjectReads.  The inductive invariant says what a reply    *)
(* found still means when get_opts looks at it: its metadata is a state    *)
(* the object had during the call, and its body, if it has one, is what    *)
(* returned_range will compute from that metadata.                         *)
(***************************************************************************)
EXTENDS ObjectReads, TLAPS

----------------------------------------------------------------------------
(* Times on their way to R2. *)

\* Dropping the fraction of a second keeps the order of two times.
LEMMA WholeSecondsKeepOrder ==
    ASSUME NEW a \in Nat, NEW b \in Nat, a >= b
    PROVE  a \div Second \in Nat /\ a \div Second >= b \div Second
<1>0. Second \in Nat /\ Second > 0
  BY SecondAssumption
<1> DEFINE q == a \div Second
           p == b \div Second
<1>1. /\ q \in Int /\ Second * q <= a /\ a < Second * (q + 1)
      /\ p \in Int /\ Second * p <= b /\ b < Second * (p + 1)
  BY <1>0
<1> HIDE DEF q, p
<1>2. q >= 0
  <2> SUFFICES ASSUME q + 1 <= 0 PROVE FALSE
    BY <1>1
  <2>1. Second * (q + 1) <= 0
    BY <1>0, <1>1
  <2> QED
    BY <2>1, <1>1, <1>0
<1>3. q >= p
  <2> SUFFICES ASSUME q + 1 <= p PROVE FALSE
    BY <1>1
  <2>1. Second * (q + 1) <= Second * p
    BY <1>0, <1>1
  <2> QED
    BY <2>1, <1>1, <1>0
<1> QED
  BY <1>1, <1>2, <1>3 DEF q, p

\* What R2 is told of two times is in their order.
LEMMA AsSentKeepsOrder ==
    ASSUME NEW k \in Calls, NEW a \in Nat, NEW b \in Nat
    PROVE  /\ AsSent(k, a) \in Nat
           /\ a >= b => AsSent(k, a) >= AsSent(k, b)
<1>1. a \div Second \in Nat
  BY WholeSecondsKeepOrder
<1>2. a >= b => a \div Second >= b \div Second
  BY WholeSecondsKeepOrder
<1> QED
  BY <1>1, <1>2 DEF AsSent

----------------------------------------------------------------------------
(* Ranges. *)

\* The fields of a call.
LEMMA CallFields ==
    ASSUME NEW k \in Calls
    PROVE  /\ k.via \in {"worker", "bridge"} /\ k.head \in BOOLEAN
           /\ k.versioned \in BOOLEAN /\ k.range \in Ranges \cup {None}
           /\ k.ifMatch # None => k.ifMatch \in Tags \cup {Any}
           /\ k.ifNoneMatch # None => k.ifNoneMatch \in Tags \cup {Any}
           /\ k.unmodifiedSince # None => k.unmodifiedSince \in Nat
           /\ k.modifiedSince # None => k.modifiedSince \in Nat
  BY TimesAssumption DEF Calls

\* The fields of a range.
LEMMA RangeFields ==
    ASSUME NEW range \in Ranges
    PROVE  /\ range.shape \in {"bounded", "offset", "suffix"}
           /\ range.from \in Nat /\ range.to \in Nat
<1>1. CASE range \in [shape: {"bounded"}, from: Positions, to: Positions]
  BY <1>1, PositionsAssumption
<1>2. CASE range \in [shape: {"offset"}, from: Positions, to: {0}]
  <2>1. range.shape = "offset" /\ range.from \in Positions /\ range.to = 0
    BY <1>2
  <2>2. 0 \in Nat
    OBVIOUS
  <2> QED
    BY <2>1, <2>2, PositionsAssumption, Zenon
<1>3. CASE range \in [shape: {"suffix"}, from: {0}, to: Positions \ {0}]
  <2>1. range.shape = "suffix" /\ range.from = 0 /\ range.to \in Positions
    BY <1>3
  <2>2. 0 \in Nat
    OBVIOUS
  <2> QED
    BY <2>1, <2>2, PositionsAssumption, Zenon
<1> QED
  BY <1>1, <1>2, <1>3 DEF Ranges

\* The fields of an object.
LEMMA ObjectFields ==
    ASSUME NEW o \in Objects
    PROVE  Size(o) \in Nat /\ o.uploaded \in Nat /\ o # None
  BY SizesAssumption, TimesAssumption, ReadsNoneAssumption DEF Objects, Size

\* returned_range fails exactly on a range that begins past the end.
LEMMA ReturnedRangeFacts ==
    ASSUME NEW range \in Ranges \cup {None}, NEW size \in Nat
    PROVE  /\ ReturnedRange(range, size) \in Spans \cup {None}
           /\ ReturnedRange(range, size) = None <=> ~Satisfiable(range, size)
           /\ range = None => Satisfiable(range, size)
<1>0. \A from, to \in Nat : Span(from, to) \in Spans /\ Span(from, to) # None
  BY ReadsNoneAssumption DEF Span, Spans
<1>1. CASE range = None
  BY <1>0, <1>1 DEF ReturnedRange, Satisfiable
<1>2. CASE range # None
  <2>0. range \in Ranges /\ range.from \in Nat /\ range.to \in Nat
        /\ range.shape \in {"bounded", "offset", "suffix"}
    BY <1>2, RangeFields
  <2>1. Within(range.to, size) \in Nat /\ size - Within(range.to, size) \in Nat
    BY <2>0 DEF Within
  <2>2. CASE range.shape = "bounded"
    BY <1>0, <1>2, <2>0, <2>1, <2>2 DEF ReturnedRange, Satisfiable
  <2>3. CASE range.shape = "offset"
    BY <1>0, <1>2, <2>0, <2>3 DEF ReturnedRange, Satisfiable
  <2>4. CASE range.shape = "suffix"
    BY <1>0, <1>2, <2>0, <2>1, <2>4 DEF ReturnedRange, Satisfiable
  <2> QED
    BY <2>0, <2>2, <2>3, <2>4
<1> QED
  BY <1>1, <1>2

\* What returned_range gives is within the object.
LEMMA ReturnedIsWithin ==
    ASSUME NEW range \in Ranges \cup {None}, NEW o \in Objects,
           range # None => IsValid(range), ReturnedRange(range, Size(o)) # None
    PROVE  InObject(ReturnedRange(range, Size(o)), o)
<1> DEFINE size == Size(o)
<1>0. size \in Nat
  BY ObjectFields
<1>1. \A from, to \in Nat : from <= to /\ to <= size => InObject(Span(from, to), o)
  BY DEF InObject, Span
<1> HIDE DEF size
<1>2. CASE range = None
  BY <1>0, <1>1, <1>2 DEF ReturnedRange, size
<1>3. CASE range # None
  <2>0. /\ range \in Ranges /\ range.from \in Nat /\ range.to \in Nat /\ IsValid(range)
        /\ range.shape \in {"bounded", "offset", "suffix"}
    BY <1>3, RangeFields
  <2>1. /\ Within(range.to, size) \in Nat /\ Within(range.to, size) <= size
        /\ range.from < size /\ range.from < range.to => range.from <= Within(range.to, size)
        /\ size - Within(range.to, size) \in Nat /\ size - Within(range.to, size) <= size
    BY <1>0, <2>0 DEF Within
  <2>2. CASE range.shape = "bounded"
    <3>1. range.from < size /\ range.from < range.to
      BY <1>3, <2>0, <2>2 DEF ReturnedRange, IsValid, size
    <3>2. ReturnedRange(range, size) = Span(range.from, Within(range.to, size))
      BY <1>3, <2>2, <3>1 DEF ReturnedRange
    <3>3. QED BY <1>1, <2>0, <2>1, <3>1, <3>2 DEF size
  <2>3. CASE range.shape = "offset"
    <3>1. range.from < size /\ ReturnedRange(range, size) = Span(range.from, size)
      BY <1>3, <2>3 DEF ReturnedRange, size
    <3>2. QED BY <1>0, <1>1, <2>0, <3>1 DEF size
  <2>4. CASE range.shape = "suffix"
    <3>1. ReturnedRange(range, size) = Span(size - Within(range.to, size), size)
      BY <1>3, <2>4 DEF ReturnedRange
    <3>2. QED BY <1>0, <1>1, <2>1, <3>1 DEF size
  <2> QED
    BY <2>0, <2>2, <2>3, <2>4
<1> QED
  BY <1>2, <1>3

\* Offset and length, or first and last byte: what R2 is sent ends where the
\* range ends, so the bytes it selects are those of returned_range.
LEMMA SelectedIsReturned ==
    ASSUME NEW k \in Calls, NEW size \in Nat,
           k.range # None => IsValid(k.range), Satisfiable(k.range, size)
    PROVE  Selected(k, size) = ReturnedRange(k.range, size)
<1>1. CASE k.range = None
  BY <1>1 DEF Selected, ReturnedRange
<1>2. CASE k.range # None
  <2>0. k.range \in Ranges
    BY <1>2, CallFields
  <2>1. /\ k.range.from \in Nat /\ k.range.to \in Nat
        /\ k.range.shape \in {"bounded", "offset", "suffix"}
    BY <2>0, RangeFields
  <2>2. CASE k.range.shape = "bounded"
    <3>1. EndAsSent(k) = k.range.to
      BY <2>1 DEF EndAsSent, ToR2Range, RangeHeader
    <3>2. k.range.from < size
      BY <1>2, <2>2 DEF Satisfiable
    <3> QED
      BY <1>2, <2>2, <3>1, <3>2 DEF Selected, ReturnedRange
  <2>3. CASE k.range.shape = "offset"
    BY <1>2, <2>3 DEF Selected, ReturnedRange, Satisfiable
  <2>4. CASE k.range.shape = "suffix"
    BY <1>2, <2>4 DEF Selected, ReturnedRange
  <2> QED
    BY <2>1, <2>2, <2>3, <2>4
<1> QED
  BY <1>1, <1>2

----------------------------------------------------------------------------
(* Conditions. *)

\* A condition that R2 refuses failed, or was met at the date itself.
LEMMA RefusedHasFailed ==
    ASSUME NEW k \in Calls, NEW o \in Objects, NEW ties, ~OnlyIf(k, o, ties)
    PROVE  MayBeStale(k, o) \/ MayBeFresh(k, o)
<1>0. /\ o.uploaded \in Nat
      /\ k.unmodifiedSince # None => k.unmodifiedSince \in Nat
      /\ k.modifiedSince # None => k.modifiedSince \in Nat
  BY CallFields, ObjectFields
<1>1. /\ AsSent(k, o.uploaded) \in Nat
      /\ k.unmodifiedSince # None => AsSent(k, k.unmodifiedSince) \in Nat
      /\ k.modifiedSince # None => AsSent(k, k.modifiedSince) \in Nat
  BY <1>0, AsSentKeepsOrder
<1> QED
  BY <1>1 DEF OnlyIf, MayBeStale, MayBeFresh

\* What check_preconditions refuses, R2 may have refused as well.
LEMMA FailedMayBeRefused ==
    ASSUME NEW k \in Calls, NEW o \in Objects
    PROVE  /\ ~Unmodified(k, o) => MayBeStale(k, o)
           /\ ~Modified(k, o) =>
                /\ MayBeFresh(k, o)
                /\ k.ifNoneMatch # None \/ k.modifiedSince # None
<1>0. /\ o.uploaded \in Nat
      /\ k.unmodifiedSince # None => k.unmodifiedSince \in Nat
      /\ k.modifiedSince # None => k.modifiedSince \in Nat
  BY CallFields, ObjectFields
<1>1. k.unmodifiedSince # None /\ ~(o.uploaded <= k.unmodifiedSince)
        => AsSent(k, o.uploaded) >= AsSent(k, k.unmodifiedSince)
  BY <1>0, AsSentKeepsOrder
<1>2. k.modifiedSince # None /\ ~(o.uploaded > k.modifiedSince)
        => AsSent(k, o.uploaded) <= AsSent(k, k.modifiedSince)
  <2> SUFFICES ASSUME k.modifiedSince # None, ~(o.uploaded > k.modifiedSince)
               PROVE  AsSent(k, o.uploaded) <= AsSent(k, k.modifiedSince)
    OBVIOUS
  <2>1. k.modifiedSince \in Nat /\ k.modifiedSince >= o.uploaded
    BY <1>0
  <2>2. /\ AsSent(k, k.modifiedSince) >= AsSent(k, o.uploaded)
        /\ AsSent(k, k.modifiedSince) \in Nat /\ AsSent(k, o.uploaded) \in Nat
    BY <1>0, <2>1, AsSentKeepsOrder
  <2> QED
    BY <2>2
<1> QED
  BY <1>1, <1>2 DEF Unmodified, Modified, MayBeStale, MayBeFresh

\* The Worker's adapter sends R2 the very dates, so an object that R2 refused
\* and check_preconditions found modified failed the other kind of condition.
LEMMA WorkerRefusalIsStale ==
    ASSUME NEW k \in Calls, NEW o \in Objects, k.via = "worker",
           Modified(k, o), MayBeStale(k, o) \/ MayBeFresh(k, o)
    PROVE  MayBeStale(k, o)
<1>0. /\ o.uploaded \in Nat
      /\ k.modifiedSince # None => k.modifiedSince \in Nat
  BY CallFields, ObjectFields
<1>1. AsSent(k, o.uploaded) = o.uploaded /\ AsSent(k, k.modifiedSince) = k.modifiedSince
  BY DEF AsSent
<1> QED
  BY <1>0, <1>1 DEF Modified, MayBeFresh

----------------------------------------------------------------------------
(* The inductive invariant. *)

\* The type of every variable.
ReadTypes ==
    /\ object \in Objects \cup {None}
    /\ now \in Times
    /\ call \in Calls \cup {None}
    /\ reply \in Replies \cup {None}
    /\ answer \in Answers \cup {None}
    /\ seen \subseteq Objects \cup {None}
    /\ fault \in BOOLEAN

CallInv ==
    /\ call = None => reply = None /\ answer = None
    /\ call # None => call \in Calls /\ object \in seen
    /\ call # None /\ (answer = None \/ answer.kind = "ok") /\ call.range # None =>
         IsValid(call.range)

\* A reply with an object: the object's head, or its body as far as the range
\* reaches, or, to the Worker alone, an object whose condition failed.
FoundInv ==
    /\ reply.meta \in seen \ {None}
    /\ \/ reply.body = None /\ AsksHead(call)
       \/ /\ reply.body = None /\ ~AsksHead(call) /\ call.via = "worker"
          /\ MayBeStale(call, reply.meta) \/ MayBeFresh(call, reply.meta)
       \/ reply.body # None /\ reply.body = ReturnedRange(call.range, Size(reply.meta))

NotFoundInv == reply.status \in {"none", "404"} => None \in seen

RefusedInv ==
    /\ reply.status = "412" => \E o \in seen \ {None} : MayBeStale(call, o)
    /\ reply.status = "304" =>
         /\ ~call.head
         /\ call.ifNoneMatch # None \/ call.modifiedSince # None
         /\ \E o \in seen \ {None} : MayBeFresh(call, o) \/ MayBeStale(call, o)

ReplyInv ==
    reply # None =>
        /\ call # None
        /\ reply.status \in IF call.via = "worker" THEN {"found", "none"}
                                                   ELSE {"found", "404", "412", "304"}
        /\ NotFoundInv /\ RefusedInv
        /\ reply.status = "found" => FoundInv

IInv ==
    /\ ReadTypes /\ CallInv /\ ReplyInv
    /\ ReadIsTrue /\ RefusalIsTrue /\ ErrorHasCause

\* What the second check makes of the metadata that came back.
LEMMA CheckedFacts ==
    ASSUME NEW k \in Calls, NEW o \in Objects, NEW payload \in Spans \cup {None}
    PROVE  LET a == Checked(k, o, payload) IN
           /\ a \in Answers
           /\ a.kind \in {"ok", "Precondition", "NotModified", "Generic"}
           /\ a.kind = "ok" =>
                /\ a.meta = o /\ Unmodified(k, o) /\ Modified(k, o)
                /\ a.range = ReturnedRange(k.range, Size(o))
                /\ a.range # None
                /\ a.payload = payload
           /\ a.kind = "Precondition" => MayBeStale(k, o)
           /\ a.kind = "NotModified" =>
                /\ MayBeFresh(k, o)
                /\ k.ifNoneMatch # None \/ k.modifiedSince # None
           /\ a.kind = "Generic" => k.range # None /\ ~Satisfiable(k.range, Size(o))
<1> DEFINE a == Checked(k, o, payload)
           r == ReturnedRange(k.range, Size(o))
<1>1. /\ k.range \in Ranges \cup {None} /\ Size(o) \in Nat
  BY CallFields, ObjectFields
<1>2. /\ r \in Spans \cup {None}
      /\ r = None => k.range # None /\ ~Satisfiable(k.range, Size(o))
  BY <1>1, ReturnedRangeFacts
<1>3. CASE ~Unmodified(k, o)
  <2>1. a = Error("Precondition")
    BY <1>3 DEF Checked
  <2> QED
    BY <2>1, <1>3, FailedMayBeRefused DEF Error, Answers
<1>4. CASE Unmodified(k, o) /\ ~Modified(k, o)
  <2>1. a = Error("NotModified")
    BY <1>4 DEF Checked
  <2> QED
    BY <2>1, <1>4, FailedMayBeRefused DEF Error, Answers
<1>5. CASE Unmodified(k, o) /\ Modified(k, o) /\ r = None
  <2>1. a = Error("Generic")
    BY <1>5 DEF Checked
  <2> QED
    BY <2>1, <1>5, <1>2 DEF Error, Answers
<1>6. CASE Unmodified(k, o) /\ Modified(k, o) /\ r # None
  <2>1. a = [kind |-> "ok", meta |-> o, range |-> r, payload |-> payload]
    BY <1>6 DEF Checked
  <2> HIDE DEF r
  <2>2. a \in Answers
    BY <2>1, <1>2 DEF Answers
  <2> QED
    BY <2>1, <2>2, <1>6 DEF r
<1> QED
  BY <1>3, <1>4, <1>5, <1>6

\* Nothing is read in the initial states.
LEMMA InitIInv == Init => IInv
  BY DEF Init, IInv, ReadTypes, CallInv, ReplyInv, ReadIsTrue, RefusalIsTrue, ErrorHasCause

\* Another writer changes the object during the call: more has been seen.
LEMMA ChangeKeeps ==
    ASSUME IInv, NEW o \in Objects \cup {None}, Changes(o), now' \in Times
    PROVE  IInv'
<1>0. /\ call # None /\ answer = None
      /\ object' = o /\ seen' = seen \cup {o}
      /\ UNCHANGED <<call, reply, answer, fault>>
  BY DEF Changes, UnderWay
<1>1. ReadTypes'
  BY <1>0 DEF IInv, ReadTypes
<1>2. CallInv'
  BY <1>0 DEF IInv, CallInv
<1>3. ReplyInv'
  <2> SUFFICES ASSUME reply # None PROVE ReplyInv'
    BY <1>0 DEF ReplyInv
  <2>1. ReplyInv
    BY DEF IInv
  <2>2. NotFoundInv'
    BY <2>1, <1>0 DEF ReplyInv, NotFoundInv
  <2>3. RefusedInv'
    BY <2>1, <1>0 DEF ReplyInv, RefusedInv
  <2>4. (reply.status = "found" => FoundInv)'
    BY <2>1, <1>0 DEF ReplyInv, FoundInv
  <2> QED
    BY <2>1, <2>2, <2>3, <2>4, <1>0 DEF ReplyInv
<1>4. ReadIsTrue' /\ RefusalIsTrue' /\ ErrorHasCause'
  BY <1>0 DEF ReadIsTrue, RefusalIsTrue, ErrorHasCause
<1> QED
  BY <1>1, <1>2, <1>3, <1>4 DEF IInv

\* The call begins; it may end at once.
LEMMA GetOptsKeeps ==
    ASSUME IInv, NEW k \in Calls, GetOpts(k)
    PROVE  IInv'
<1>0. /\ call = None /\ reply = None /\ answer = None
      /\ call' = k /\ seen' = {object} /\ UNCHANGED <<object, now, reply, fault>>
  BY DEF IInv, CallInv, GetOpts
<1>1. \/ answer' = Error("NotSupported")
      \/ answer' = Error("Generic") /\ k.range # None /\ ~IsValid(k.range)
      \/ answer' = None /\ (k.range # None => IsValid(k.range))
  <2>1. CASE k.versioned
    BY <2>1 DEF GetOpts
  <2>2. CASE ~k.versioned /\ k.range # None /\ ~IsValid(k.range)
    BY <2>2 DEF GetOpts
  <2>3. CASE ~k.versioned /\ ~(k.range # None /\ ~IsValid(k.range))
    BY <2>3 DEF GetOpts
  <2> QED
    BY <2>1, <2>2, <2>3
<1>2. \A kind \in {"NotSupported", "Generic"} :
        Error(kind) \in Answers /\ Error(kind) # None /\ Error(kind).kind = kind
  BY ReadsNoneAssumption DEF Error, Answers
<1>3. ReadTypes'
  BY <1>0, <1>1, <1>2 DEF IInv, ReadTypes
<1>4. CallInv'
  BY <1>0, <1>1, <1>2, ReadsNoneAssumption DEF CallInv
<1>5. ReplyInv'
  BY <1>0 DEF ReplyInv
<1>6. ReadIsTrue' /\ RefusalIsTrue' /\ ErrorHasCause'
  BY <1>0, <1>1, <1>2 DEF ReadIsTrue, RefusalIsTrue, ErrorHasCause
<1> QED
  BY <1>3, <1>4, <1>5, <1>6 DEF IInv

\* R2 answers a head.
LEMMA R2HeadKeeps ==
    ASSUME IInv, R2Head
    PROVE  IInv'
<1>0. /\ call # None /\ answer = None /\ reply = None /\ AsksHead(call)
      /\ call \in Calls /\ object \in seen /\ object \in Objects \cup {None}
      /\ call.via \in {"worker", "bridge"}
      /\ UNCHANGED <<object, now, call, answer, seen, fault>>
  BY CallFields DEF IInv, CallInv, ReadTypes, R2Head, Sent, UnderWay, Receives
<1>1. CASE object = None
  <2> DEFINE r == Reply(IF call.via = "bridge" THEN "404" ELSE "none", None, None)
  <2>1. reply' = r
    BY <1>1 DEF R2Head, Receives
  <2>2. r \in Replies /\ r.status = IF call.via = "bridge" THEN "404" ELSE "none"
    BY DEF Reply, Replies
  <2>3. ReplyInv'
    BY <1>0, <1>1, <2>1, <2>2 DEF ReplyInv, NotFoundInv, RefusedInv, FoundInv
  <2> QED
    BY <1>0, <2>1, <2>2, <2>3 DEF IInv, ReadTypes, CallInv, ReadIsTrue, RefusalIsTrue,
                                  ErrorHasCause
<1>2. CASE object # None
  <2> DEFINE r == Reply("found", object, None)
  <2>1. reply' = r
    BY <1>2 DEF R2Head, Receives
  <2>2. r \in Replies /\ r.status = "found" /\ r.meta = object /\ r.body = None
    BY <1>0, <1>2 DEF Reply, Replies
  <2>3. ReplyInv'
    <3>1. FoundInv'
      BY <1>0, <1>2, <2>1, <2>2 DEF FoundInv, AsksHead, Unconditional
    <3> QED
      BY <1>0, <2>1, <2>2, <3>1 DEF ReplyInv, NotFoundInv, RefusedInv
  <2> QED
    BY <1>0, <2>1, <2>2, <2>3 DEF IInv, ReadTypes, CallInv, ReadIsTrue, RefusalIsTrue,
                                  ErrorHasCause
<1> QED
  BY <1>1, <1>2

\* R2 answers a get: no object, an object whose condition failed, or its body.
LEMMA R2GetKeeps ==
    ASSUME IInv, NEW ties, R2Get(ties)
    PROVE  IInv'
<1>0. /\ call # None /\ answer = None /\ reply = None /\ ~AsksHead(call)
      /\ call \in Calls /\ object \in seen /\ object \in Objects \cup {None}
      /\ call.via \in {"worker", "bridge"}
      /\ call.range # None => IsValid(call.range)
      /\ UNCHANGED <<object, now, call, answer, seen, fault>>
  BY CallFields DEF IInv, CallInv, ReadTypes, R2Get, Sent, UnderWay, Receives
<1>1. ASSUME NEW r \in Replies, reply' = r, ReplyInv' PROVE IInv'
  BY <1>0, <1>1 DEF IInv, ReadTypes, CallInv, ReadIsTrue, RefusalIsTrue, ErrorHasCause
<1>2. CASE object = None
  <2> DEFINE r == Reply(IF call.via = "bridge" THEN "404" ELSE "none", None, None)
  <2>1. reply' = r
    BY <1>2 DEF R2Get, Receives
  <2>2. r \in Replies /\ r.status = IF call.via = "bridge" THEN "404" ELSE "none"
    BY DEF Reply, Replies
  <2>3. ReplyInv'
    BY <1>0, <1>2, <2>1, <2>2 DEF ReplyInv, NotFoundInv, RefusedInv, FoundInv
  <2> QED
    BY <1>1, <2>1, <2>2, <2>3
<1>3. CASE object # None /\ ~OnlyIf(call, object, ties)
  <2> DEFINE status == IF call.via = "bridge" THEN RefusedStatus(call) ELSE "found"
             r == Reply(status, object, None)
  <2>1. reply' = r
    BY <1>3 DEF R2Get, Receives
  <2>2. status \in IF call.via = "bridge" THEN {"304", "412"} ELSE {"found"}
    BY DEF RefusedStatus
  <2>3. r \in Replies /\ r.status = status /\ r.meta = object /\ r.body = None
    BY <1>0, <1>3, <2>2 DEF Reply, Replies
  <2>4. MayBeStale(call, object) \/ MayBeFresh(call, object)
    BY <1>0, <1>3, RefusedHasFailed
  <2>5. CASE call.via = "worker"
    <3>1. r.status = "found" /\ FoundInv'
      BY <1>0, <1>3, <2>1, <2>3, <2>4, <2>5 DEF FoundInv, AsksHead, MayBeStale, MayBeFresh
    <3>2. ReplyInv'
      BY <1>0, <2>1, <2>5, <3>1 DEF ReplyInv, NotFoundInv, RefusedInv
    <3> QED
      BY <1>1, <2>1, <2>3, <3>2
  <2>6. CASE call.via = "bridge"
    <3>1. ~call.head
      BY <1>0, <2>6 DEF AsksHead
    <3>2. r.status \in {"304", "412"}
      BY <2>2, <2>3, <2>6
    <3>3. r.status = "412" => ~MayBeFresh(call, object)
      BY <2>3, <2>6 DEF RefusedStatus, MayBeFresh
    <3>4. r.status = "304" => call.ifNoneMatch # None \/ call.modifiedSince # None
      BY <2>3, <2>6 DEF RefusedStatus
    <3>5. RefusedInv'
      BY <1>0, <1>3, <2>1, <2>4, <3>1, <3>3, <3>4 DEF RefusedInv
    <3>6. ReplyInv'
      BY <1>0, <2>1, <2>6, <3>2, <3>5 DEF ReplyInv, NotFoundInv
    <3> QED
      BY <1>1, <2>1, <2>3, <3>6
  <2> QED
    BY <1>0, <2>5, <2>6
<1>4. CASE object # None /\ OnlyIf(call, object, ties)
  <2> DEFINE body == Selected(call, Size(object))
             r == Reply("found", object, body)
  <2>1. reply' = r /\ Satisfiable(call.range, Size(object))
    BY <1>4 DEF R2Get, Receives
  <2>2. Size(object) \in Nat /\ call.range \in Ranges \cup {None}
    BY <1>0, <1>4, ObjectFields, CallFields
  <2>3. body = ReturnedRange(call.range, Size(object))
    BY <1>0, <2>1, <2>2, SelectedIsReturned
  <2>4. body \in Spans /\ body # None
    BY <2>1, <2>2, <2>3, ReturnedRangeFacts
  <2> HIDE DEF body
  <2>5. r \in Replies /\ r.status = "found" /\ r.meta = object /\ r.body = body
    BY <1>0, <1>4, <2>4 DEF Reply, Replies
  <2>6. FoundInv'
    BY <1>0, <1>4, <2>1, <2>3, <2>4, <2>5 DEF FoundInv
  <2>7. ReplyInv'
    BY <1>0, <2>1, <2>5, <2>6 DEF ReplyInv, NotFoundInv, RefusedInv
  <2> QED
    BY <1>1, <2>1, <2>5, <2>7
<1> QED
  BY <1>2, <1>3, <1>4

\* What an answer must satisfy, whichever step gives it.
LEMMA ReturnsKeeps ==
    ASSUME IInv, UnderWay, NEW a \in Answers, Returns(a), fault' \in BOOLEAN,
           (ReadIsTrue /\ RefusalIsTrue /\ ErrorHasCause)'
    PROVE  IInv'
<1>0. answer = None /\ answer' = a /\ answer' # None
      /\ UNCHANGED <<object, now, call, reply, seen>>
  BY ReadsNoneAssumption DEF UnderWay, Returns
<1>1. ReadTypes' /\ CallInv'
  BY <1>0 DEF IInv, ReadTypes, CallInv, UnderWay
<1>2. ReplyInv'
  BY <1>0 DEF IInv, ReplyInv, NotFoundInv, RefusedInv, FoundInv
<1> QED
  BY <1>1, <1>2 DEF IInv

\* R2 refuses the range, or something fails.
LEMMA FailureKeeps ==
    ASSUME IInv, R2RangeErr \/ Fails
    PROVE  IInv'
<1> DEFINE a == Error("Generic")
<1>1. a \in Answers /\ a.kind = "Generic"
  BY DEF Error, Answers
<1>2. /\ UnderWay /\ Returns(a) /\ fault' \in BOOLEAN
      /\ answer' = a /\ UNCHANGED <<object, call, seen>>
  BY DEF R2RangeErr, Fails, Sent, Returns, IInv, ReadTypes
<1>3. CASE R2RangeErr
  <2>1. call \in Calls /\ object \in seen \ {None} /\ object \in Objects
        /\ ~Satisfiable(call.range, Size(object))
    BY <1>2, <1>3 DEF R2RangeErr, UnderWay, IInv, CallInv, ReadTypes
  <2>2. call.range # None
    BY <2>1, ObjectFields, CallFields, ReturnedRangeFacts
  <2>3. (ReadIsTrue /\ RefusalIsTrue /\ ErrorHasCause)'
    BY <1>1, <1>2, <2>1, <2>2 DEF ReadIsTrue, RefusalIsTrue, ErrorHasCause
  <2> QED
    BY <1>1, <1>2, <2>3, ReturnsKeeps
<1>4. CASE Fails
  <2>1. fault'
    BY <1>4 DEF Fails
  <2>2. (ReadIsTrue /\ RefusalIsTrue /\ ErrorHasCause)'
    BY <1>1, <1>2, <2>1 DEF ReadIsTrue, RefusalIsTrue, ErrorHasCause
  <2> QED
    BY <1>1, <1>2, <2>2, ReturnsKeeps
<1> QED
  BY <1>3, <1>4

\* The second check on a reply with an object: its answer is true, but for an
\* object that came without the body asked for.
LEMMA CheckedAnswers ==
    ASSUME IInv, UnderWay, reply # None, reply.status = "found",
           NEW a, a = Checked(call, reply.meta, IF call.head THEN None ELSE reply.body),
           a.kind = "ok" => call.head \/ reply.body # None,
           Returns(a), UNCHANGED fault
    PROVE  IInv'
<1>0. /\ call \in Calls /\ reply.meta \in Objects /\ reply.meta \in seen \ {None}
      /\ reply.body \in Spans \cup {None} /\ FoundInv
  BY DEF UnderWay, IInv, CallInv, ReplyInv, FoundInv, ReadTypes, Replies
<1>1. /\ a \in Answers
      /\ a.kind \in {"ok", "Precondition", "NotModified", "Generic"}
      /\ a.kind = "ok" =>
           /\ a.meta = reply.meta /\ Unmodified(call, reply.meta) /\ Modified(call, reply.meta)
           /\ a.range = ReturnedRange(call.range, Size(reply.meta))
           /\ a.payload = IF call.head THEN None ELSE reply.body
      /\ a.kind = "Precondition" => MayBeStale(call, reply.meta)
      /\ a.kind = "NotModified" =>
           /\ MayBeFresh(call, reply.meta)
           /\ call.ifNoneMatch # None \/ call.modifiedSince # None
      /\ a.kind = "Generic" =>
           call.range # None /\ ~Satisfiable(call.range, Size(reply.meta))
  <2>1. (IF call.head THEN None ELSE reply.body) \in Spans \cup {None}
    BY <1>0
  <2> QED
    BY <1>0, <2>1, CheckedFacts
<1>2. answer' = a /\ UNCHANGED <<call, seen, fault>> /\ fault' \in BOOLEAN
  BY DEF Returns, IInv, ReadTypes
<1>3. ReadIsTrue'
  <2> SUFFICES ASSUME a.kind = "ok" PROVE ReadIsTrue'
    BY <1>2 DEF ReadIsTrue
  <2>1. ~call.head => reply.body = ReturnedRange(call.range, Size(reply.meta))
    BY <1>0 DEF FoundInv
  <2> QED
    BY <1>0, <1>1, <1>2, <2>1 DEF ReadIsTrue
<1>4. RefusalIsTrue'
  BY <1>0, <1>1, <1>2 DEF RefusalIsTrue
<1>5. ErrorHasCause'
  BY <1>0, <1>1, <1>2 DEF ErrorHasCause
<1> QED
  BY <1>1, <1>2, <1>3, <1>4, <1>5, ReturnsKeeps

\* The Worker's adapter answers from the version R2 sent it.
LEMMA WorkerAnswersKeeps ==
    ASSUME IInv, WorkerAnswers
    PROVE  IInv'
<1>0. /\ UnderWay /\ reply # None /\ call.via = "worker" /\ UNCHANGED fault
      /\ call \in Calls /\ fault' \in BOOLEAN
      /\ reply.status \in {"found", "none"}
  BY DEF WorkerAnswers, UnderWay, IInv, CallInv, ReplyInv, ReadTypes
<1>1. CASE reply.status = "none"
  <2> DEFINE a == Error("NotFound")
  <2>1. a \in Answers /\ a.kind = "NotFound"
    BY DEF Error, Answers
  <2>2. Returns(a) /\ answer' = a /\ UNCHANGED <<call, seen>>
    BY <1>1 DEF WorkerAnswers, Returns
  <2>3. None \in seen
    BY <1>0, <1>1 DEF IInv, ReplyInv, NotFoundInv
  <2>4. (ReadIsTrue /\ RefusalIsTrue /\ ErrorHasCause)'
    BY <2>1, <2>2, <2>3 DEF ReadIsTrue, RefusalIsTrue, ErrorHasCause
  <2> QED
    BY <1>0, <2>1, <2>2, <2>4, ReturnsKeeps
<1>2. CASE reply.status = "found"
  <2> DEFINE checked == Checked(call, reply.meta, IF call.head THEN None ELSE reply.body)
  <2>1. CASE checked.kind = "ok" /\ ~call.head /\ reply.body = None
    <3> DEFINE a == Error("Precondition")
    <3>1. a \in Answers /\ a.kind = "Precondition"
      BY DEF Error, Answers
    <3>2. Returns(a) /\ answer' = a /\ UNCHANGED <<call, seen>>
      BY <1>2, <2>1 DEF WorkerAnswers, Returns
    <3>3. /\ reply.meta \in Objects /\ reply.meta \in seen \ {None}
          /\ MayBeStale(call, reply.meta) \/ MayBeFresh(call, reply.meta)
      BY <1>0, <1>2, <2>1 DEF IInv, ReplyInv, FoundInv, ReadTypes, Replies, AsksHead
    <3>4. Modified(call, reply.meta)
      <4>1. (IF call.head THEN None ELSE reply.body) \in Spans \cup {None}
        BY <2>1
      <4> QED
        BY <1>0, <2>1, <3>3, <4>1, CheckedFacts
    <3>5. MayBeStale(call, reply.meta)
      BY <1>0, <3>3, <3>4, WorkerRefusalIsStale
    <3>6. (ReadIsTrue /\ RefusalIsTrue /\ ErrorHasCause)'
      BY <3>1, <3>2, <3>3, <3>5 DEF ReadIsTrue, RefusalIsTrue, ErrorHasCause
    <3> QED
      BY <1>0, <3>1, <3>2, <3>6, ReturnsKeeps
  <2>2. CASE ~(checked.kind = "ok" /\ ~call.head /\ reply.body = None)
    <3>1. Returns(checked)
      BY <1>2, <2>2 DEF WorkerAnswers
    <3>2. checked.kind = "ok" => call.head \/ reply.body # None
      BY <2>2
    <3> HIDE DEF checked
    <3> QED
      BY <1>0, <1>2, <3>1, <3>2, CheckedAnswers DEF checked
  <2> QED
    BY <2>1, <2>2
<1> QED
  BY <1>0, <1>1, <1>2

\* The container's adapter answers from what the bridge made of that version.
LEMMA BridgeAnswersKeeps ==
    ASSUME IInv, BridgeAnswers
    PROVE  IInv'
<1>0. /\ UnderWay /\ reply # None /\ call.via = "bridge" /\ UNCHANGED fault
      /\ call \in Calls /\ fault' \in BOOLEAN
      /\ reply.status \in {"found", "404", "412", "304"}
  BY DEF BridgeAnswers, UnderWay, IInv, CallInv, ReplyInv, ReadTypes
<1>1. ASSUME NEW kind \in {"NotFound", "Precondition", "NotModified"},
             Returns(Error(kind)),
             kind = "NotFound" => None \in seen,
             kind = "Precondition" => \E o \in seen \ {None} : MayBeStale(call, o),
             kind = "NotModified" =>
               /\ ~call.head
               /\ call.ifNoneMatch # None \/ call.modifiedSince # None
               /\ \E o \in seen \ {None} : MayBeFresh(call, o) \/ MayBeStale(call, o)
      PROVE  IInv'
  <2> DEFINE a == Error(kind)
  <2>1. a \in Answers /\ a.kind = kind
    BY DEF Error, Answers
  <2>2. answer' = a /\ UNCHANGED <<call, seen>>
    BY <1>1 DEF Returns
  <2>3. (ReadIsTrue /\ RefusalIsTrue /\ ErrorHasCause)'
    BY <1>0, <1>1, <2>1, <2>2 DEF ReadIsTrue, RefusalIsTrue, ErrorHasCause
  <2> QED
    BY <1>0, <1>1, <2>1, <2>3, ReturnsKeeps
<1>2. CASE reply.status = "404"
  <2>1. Returns(Error("NotFound")) /\ None \in seen
    BY <1>0, <1>2 DEF BridgeAnswers, IInv, ReplyInv, NotFoundInv
  <2> QED
    BY <2>1, <1>1
<1>3. CASE reply.status = "412"
  <2>1. Returns(Error("Precondition")) /\ \E o \in seen \ {None} : MayBeStale(call, o)
    BY <1>0, <1>3 DEF BridgeAnswers, IInv, ReplyInv, RefusedInv
  <2> QED
    BY <2>1, <1>1
<1>4. CASE reply.status = "304"
  <2>1. /\ Returns(Error("NotModified"))
        /\ ~call.head
        /\ call.ifNoneMatch # None \/ call.modifiedSince # None
        /\ \E o \in seen \ {None} : MayBeFresh(call, o) \/ MayBeStale(call, o)
    BY <1>0, <1>4 DEF BridgeAnswers, IInv, ReplyInv, RefusedInv
  <2> QED
    BY <2>1, <1>1
<1>5. CASE reply.status = "found"
  <2> DEFINE a == Checked(call, reply.meta, IF call.head THEN None ELSE reply.body)
  <2>1. Returns(a)
    BY <1>5 DEF BridgeAnswers
  <2>2. call.head \/ reply.body # None
    BY <1>0, <1>5 DEF IInv, ReplyInv, FoundInv, AsksHead
  <2> HIDE DEF a
  <2> QED
    BY <1>0, <1>5, <2>1, <2>2, CheckedAnswers DEF a
<1> QED
  BY <1>0, <1>2, <1>3, <1>4, <1>5

----------------------------------------------------------------------------
\* Every step keeps the inductive invariant.
LEMMA NextIInv == IInv /\ [Next]_vars => IInv'
<1> SUFFICES ASSUME IInv, [Next]_vars PROVE IInv'
  OBVIOUS
<1>1. ASSUME NEW o \in Objects, Replace(o) PROVE IInv'
  <2>1. now' \in Times /\ Changes(o)
    BY <1>1 DEF Replace, Objects
  <2> QED
    BY <2>1, ChangeKeeps
<1>2. CASE Delete
  <2>1. now' \in Times /\ Changes(None)
    BY <1>2 DEF Delete, IInv, ReadTypes
  <2> QED
    BY <2>1, ChangeKeeps
<1>3. CASE UNCHANGED vars
  BY <1>3 DEF vars, IInv, ReadTypes, CallInv, ReplyInv, NotFoundInv, RefusedInv, FoundInv,
              ReadIsTrue, RefusalIsTrue, ErrorHasCause
<1>4. CASE Returned
  BY <1>3, <1>4 DEF Returned
<1> QED
  BY <1>1, <1>2, <1>3, <1>4, GetOptsKeeps, R2HeadKeeps, R2GetKeeps, FailureKeeps,
     WorkerAnswersKeeps, BridgeAnswersKeeps DEF Next

\* The inductive invariant holds in every reachable state.
LEMMA Invariant == Spec => []IInv
  BY InitIInv, NextIInv, PTL DEF Spec

\* A read returns one version of the object with the bytes of its range, for
\* every object, time, range and condition, and any number of changes.
THEOREM ReadsAreTrue == Spec => []ReadIsTrue
<1>1. IInv => ReadIsTrue
  BY DEF IInv
<1> QED
  BY Invariant, <1>1, PTL

\* A refusal is true of a state the object had during the call.
THEOREM RefusalsAreTrue == Spec => []RefusalIsTrue
<1>1. IInv => RefusalIsTrue
  BY DEF IInv
<1> QED
  BY Invariant, <1>1, PTL

\* No call fails without a failure or an unsatisfiable range.
THEOREM ErrorsHaveCauses == Spec => []ErrorHasCause
<1>1. IInv => ErrorHasCause
  BY DEF IInv
<1> QED
  BY Invariant, <1>1, PTL

\* Every variable keeps its type, and a range that is returned is within the
\* object returned with it, as are its bytes.
THEOREM ReadTypeCorrect == Spec => []ReadTypeOK
<1>1. IInv => ReadTypeOK
  <2> SUFFICES ASSUME IInv PROVE ReadTypeOK
    OBVIOUS
  <2>1. ReadTypes
    BY DEF IInv
  <2>2. ASSUME answer # None, answer.kind = "ok",
               NEW span \in {answer.range, answer.payload} \ {None}
        PROVE  InObject(span, answer.meta)
    <3>1. call \in Calls /\ (call.range # None => IsValid(call.range))
      BY <2>2 DEF IInv, CallInv, ReadTypes
    <3>2. /\ answer.meta \in Objects
          /\ span = ReturnedRange(call.range, Size(answer.meta))
      BY <2>1, <2>2 DEF IInv, ReadIsTrue, ReadTypes
    <3>3. call.range \in Ranges \cup {None}
      BY <3>1, CallFields
    <3> QED
      BY <2>2, <3>1, <3>2, <3>3, ReturnedIsWithin
  <2> QED
    BY <2>1, <2>2 DEF ReadTypes, ReadTypeOK
<1> QED
  BY Invariant, <1>1, PTL
=============================================================================
